---- MODULE Spec2Model ----
(***************************************************************************)
(* Model of backend/push_activity.py: the SQLite store of                  *)
(* PushActivityDatabase (campaigns, change_log, sync_history,              *)
(* pushed_companies) and the push / status / reconcile operations of       *)
(* PushActivityDatabase and PushActivityClient.                            *)
(*                                                                         *)
(* Strings whose content the code inspects (company names, which are       *)
(* stripped and tested for emptiness) are sequences of characters.         *)
(* Every operation opens its own connection and commits once at the end;   *)
(* an exception before the commit discards the connection and with it the  *)
(* uncommitted transaction, so a raising operation persists nothing.       *)
(***************************************************************************)
EXTENDS Integers, Sequences, FiniteSets, TLC

\* ---------------------------------------------------------------- bounds
\* leads in one fetched lead list
MaxLeads == 2
\* webhook deliveries after which SpecPush stops
MaxDeliveries == 2
\* committed reconciliation runs after which SpecReconcile stops
MaxSync == 2
\* webhook deliveries plus committed reconciliation runs after which Spec stops
MaxCommits == 2
\* reconciliation passes after which SpecPass stops
MaxPasses == 1
\* ticks of CURRENT_TIMESTAMP
MaxClock == 2

\* ------------------------------------------------------- input universes
CampaignIds == {"A", "B"}
LeadIds == {"l1", "l2"}
CampaignNames == {"X", "Y"}
Statuses == {"running", "paused"}

SP == " "
\* raw companyName values of fetched leads: empty, blank, plain and padded
RawNames == { <<>>, <<SP>>, <<"a">>, <<SP, "b", SP>> }

\* SQL NULL in a text column
NULL == <<>>

\* ------------------------------------------------------------ str.strip()
RECURSIVE LStrip(_)
LStrip(s) == IF s # <<>> /\ Head(s) = SP THEN LStrip(Tail(s)) ELSE s

RECURSIVE RStrip(_)
RStrip(s) == IF s # <<>> /\ s[Len(s)] = SP THEN RStrip(SubSeq(s, 1, Len(s) - 1)) ELSE s

Strip(s) == RStrip(LStrip(s))

\* Python truthiness of a str
Truthy(s) == s # <<>>

\* lead lists returned by get_campaign_leads (only companyName is read by
\* the push and status operations); the empty list is also what a failed
\* fetch returns
LeadLists == UNION { [1..n -> [companyName : RawNames]] : n \in 0..MaxLeads }

\* "Extract unique company names" loop of push_all_companies,
\* push_new_companies and get_campaign_push_status
UniqueCompanies(leads) ==
    { Strip(leads[i].companyName) : i \in { j \in 1..Len(leads) :
          Truthy(leads[j].companyName) /\ Truthy(Strip(leads[j].companyName)) } }

\* ------------------------------------------------------------- the tables
\* columns of change_log as created by _init_database
ChangeLogColumns == { "id", "change_type", "campaign_id", "campaign_name", "lead_id",
                      "lead_email", "lead_company", "old_value", "new_value",
                      "change_timestamp" }

NoRow == [present |-> FALSE]

VARIABLES
    campaigns,          \* campaigns table: id -> row or NoRow
    change_log,         \* change_log table, in id order
    sync_history,       \* sync_history table, in id order
    pushed_companies,   \* pushed_companies table: <<campaign_id, company_name>> -> number of rows
    webhook,            \* payloads the webhook has accepted, oldest first
    leads_table,        \* leads table: id -> row or NoRow
    clock,              \* CURRENT_TIMESTAMP, in ticks of its resolution
    inflight,           \* push calls running side by side: process -> its position
    migration           \* migrate_organizations: its rows, its position and the remote table

vars == <<campaigns, change_log, sync_history, pushed_companies, webhook, leads_table, clock,
          inflight, migration>>

\* migrate_organizations: at most MaxOrgs rows, upserted BatchSize at a time
MaxOrgs == 4
BatchSize == 2

\* the callers that run a push side by side, and a caller that runs none
Procs == { "p1", "p2" }
Idle == [phase |-> "idle"]

\* the store and the webhook as one value, handed to the operations
World ==
    [campaigns |-> campaigns, change_log |-> change_log, sync_history |-> sync_history,
     pushed_companies |-> pushed_companies, webhook |-> webhook, leads |-> leads_table]

\* the store and the webhook become w
Becomes(w) ==
    /\ campaigns' = w.campaigns
    /\ change_log' = w.change_log
    /\ sync_history' = w.sync_history
    /\ pushed_companies' = w.pushed_companies
    /\ webhook' = w.webhook
    /\ leads_table' = w.leads
    /\ clock' = clock
    /\ inflight' = inflight
    /\ migration' = migration

\* the shape of the tables: campaigns is keyed by id, the AUTOINCREMENT ids
\* of change_log and sync_history are the row positions, pushed_companies
\* counts the rows of each (campaign_id, company_name) pair
TypeOK ==
    /\ \A id \in CampaignIds :
          \/ campaigns[id] = NoRow
          \/ campaigns[id] \in [present : {TRUE}, name : CampaignNames,
                                status : Statuses, is_active : BOOLEAN]
    /\ \A i \in 1..Len(change_log) : change_log[i].id = i
    /\ \A i \in 1..Len(sync_history) : sync_history[i].id = i
    /\ DOMAIN pushed_companies = CampaignIds \X { Strip(r) : r \in RawNames \ { <<>>, <<SP>> } }
    /\ \A p \in DOMAIN pushed_companies : pushed_companies[p] \in Nat
    /\ \A l \in LeadIds :
          \/ leads_table[l] = NoRow
          \/ leads_table[l] \in [present : {TRUE}, campaign_id : CampaignIds,
                                  company_name : RawNames, is_active : BOOLEAN]
    /\ clock \in Nat
    /\ \A p \in Procs :
          \/ inflight[p] = Idle
          \/ inflight[p] \in [phase : {"computed", "delivered", "done"},
                              op : {"push_all", "push_new"}, campaign_id : CampaignIds,
                              seen : SUBSET { Strip(r) : r \in RawNames },
                              companies : SUBSET { Strip(r) : r \in RawNames }]

\* company names that can reach the store
Companies == { Strip(r) : r \in RawNames } \ { <<>> }

\* NULL of a column: text columns holding names and ids are strings, the
\* value columns (company names, JSON texts) are sequences
NullText == "NULL"
NullOf(col) == IF col \in { "lead_company", "old_value", "new_value" } THEN NULL ELSE NullText

\* json.dumps({'name': ..., 'status': ...})
JsonDumps(d) == << "name", d.name, "status", d.status >>

\* variant: INSERT OR REPLACE with the id of the newest row, which the new
\* row replaces
InsertChangeLogOverwrites(log, values) ==
    LET row == [col \in ChangeLogColumns |->
                    IF col = "id" THEN IF log = <<>> THEN 1 ELSE Len(log)
                    ELSE IF col = "change_timestamp" THEN clock
                    ELSE IF col \in DOMAIN values THEN values[col]
                    ELSE NullOf(col)]
    IN  IF DOMAIN values \subseteq ChangeLogColumns
        THEN [ok |-> TRUE,
              log |-> IF log = <<>> THEN << row >> ELSE [log EXCEPT ![Len(log)] = row]]
        ELSE [ok |-> FALSE, log |-> log]

\* INSERT INTO change_log (<columns of values>) VALUES (...): sqlite rejects
\* the statement when it names a column the table does not have; otherwise
\* the row gets the next AUTOINCREMENT id, CURRENT_TIMESTAMP as its
\* change_timestamp and NULL in the other unnamed columns
InsertChangeLog(log, values) ==
    IF DOMAIN values \subseteq ChangeLogColumns
    THEN [ok |-> TRUE,
          log |-> Append(log,
                    [col \in ChangeLogColumns |->
                        IF col = "id" THEN Len(log) + 1
                        ELSE IF col = "change_timestamp" THEN clock
                        ELSE IF col \in DOMAIN values THEN values[col]
                        ELSE NullOf(col)])]
    ELSE [ok |-> FALSE, log |-> log]

\* ------------------------------------------------- pushed_companies table
\* variant: the lookup swallows an error and reports nothing pushed
GetPushedCompaniesNone(pc, campaign_id) == {}

\* variant: the WHERE campaign_id = ? filter is missing
GetPushedCompaniesAnyCampaign(pc, campaign_id) ==
    { n \in Companies : \E c \in CampaignIds : pc[<<c, n>>] > 0 }

GetPushedCompanies(pc, campaign_id) ==
    { n \in Companies : pc[<<campaign_id, n>>] > 0 }

\* variant: plain INSERT into a table without the UNIQUE constraint
InsertPushedNoIgnore(pc, campaign_id, company_name) ==
    [pc EXCEPT ![<<campaign_id, company_name>>] = @ + 1]

\* variant: the row is keyed by the company name alone, one pushed set for
\* all campaigns
InsertOrIgnorePushedAnyCampaign(pc, campaign_id, company_name) ==
    [p \in DOMAIN pc |-> IF p[2] = company_name /\ pc[p] = 0 THEN 1 ELSE pc[p]]

\* INSERT OR IGNORE under UNIQUE(campaign_id, company_name)
InsertOrIgnorePushed(pc, campaign_id, company_name) ==
    IF pc[<<campaign_id, company_name>>] > 0
    THEN pc
    ELSE [pc EXCEPT ![<<campaign_id, company_name>>] = 1]

\* variant: the loop stops after the first company
MarkLoopFirstOnly(pc, campaign_id, names) ==
    IF names = {} THEN pc
    ELSE [pc EXCEPT ![<<campaign_id, CHOOSE m \in names : TRUE>>] = 1]

RECURSIVE MarkLoop(_, _, _)
MarkLoop(pc, campaign_id, names) ==
    IF names = {} THEN pc
    ELSE LET n == CHOOSE m \in names : TRUE
         IN  MarkLoop(InsertOrIgnorePushed(pc, campaign_id, n), campaign_id, names \ {n})

\* variant: the rows of the campaign are rewritten from the names given,
\* dropping what another caller has inserted meanwhile
MarkCompaniesAsPushedRewrites(pc, campaign_id, company_names) ==
    [p \in DOMAIN pc |-> IF p[1] = campaign_id
                         THEN (IF p[2] \in company_names THEN 1 ELSE 0)
                         ELSE pc[p]]

\* variant: the inserts are never committed
MarkCompaniesAsPushedNone(pc, campaign_id, company_names) == pc

MarkCompaniesAsPushed(pc, campaign_id, company_names) ==
    MarkLoop(pc, campaign_id, company_names)

\* variant: the pushed set is not subtracted
GetNewCompaniesAll(pc, campaign_id, current_companies) == current_companies

GetNewCompanies(pc, campaign_id, current_companies) ==
    current_companies \ GetPushedCompanies(pc, campaign_id)

\* log_push_activity: looks the campaign name up, then inserts naming the
\* column "details"; the exception of a rejected insert is logged and
\* swallowed, so the result is the change log either way
LogPushActivity(camps, log, campaign_id, push_type, companies_count) ==
    LET campaign_name == IF camps[campaign_id].present THEN camps[campaign_id].name
                         ELSE "Campaign " \o campaign_id
        ins == InsertChangeLog(log,
                 [change_type |-> push_type, campaign_id |-> campaign_id,
                  campaign_name |-> campaign_name,
                  details |-> << "Pushed", companies_count, "companies to webhook" >>])
    IN  ins.log

\* ---------------------------------------------------------- get_change_log
\* the dict get_change_log builds of a row: the id is not selected
ChangeDict(row) ==
    [col \in ChangeLogColumns \ { "id", "campaign_id", "lead_id" } |-> row[col]]

\* the orders ORDER BY change_timestamp DESC can give the rows ids of the
\* table in: sqlite does not say in which order rows with equal timestamps
\* come
RECURSIVE OrderRows(_, _)
OrderRows(log, ids) ==
    IF ids = {} THEN { <<>> }
    ELSE UNION { { <<first>> \o rest : rest \in OrderRows(log, ids \ { first }) } :
                 first \in { i \in ids : \A j \in ids :
                                log[i].change_timestamp >= log[j].change_timestamp } }

OrderByTimestampDesc(log) == OrderRows(log, 1..Len(log))

\* the rows get_change_log(limit) can select, in the order it returns them
GetChangeLogRows(log, limit) ==
    { SubSeq(p, 1, IF limit < Len(log) THEN limit ELSE Len(log)) :
        p \in OrderByTimestampDesc(log) }

\* the lists get_change_log(limit) can return
GetChangeLog(log, limit) ==
    { [i \in 1..Len(rows) |-> ChangeDict(log[rows[i]])] : rows \in GetChangeLogRows(log, limit) }

\* ------------------------------------------------------------ push client
Failure(error) == [success |-> FALSE, error |-> error]

\* the JSON body posted by push_companies_to_webhook (its timestamp is not
\* represented); sent_by records which operation posted it
Payload(campaign_id, company_names, sent_by) ==
    [campaign_id |-> campaign_id, companies |-> company_names,
     count |-> Cardinality(company_names), sent_by |-> sent_by]

\* push_all_companies(campaign_id, database) run on the world w: the dict
\* it returns and the world it leaves. leads is what get_campaign_leads
\* returns, delivered is whether the POST succeeds
PushAllCompanies(w, campaign_id, leads, delivered) ==
    LET unique_companies == UniqueCompanies(leads)
    IN  IF leads = <<>>
        THEN [result |-> Failure("No leads found for campaign"), world |-> w]
        ELSE IF unique_companies = {}
        THEN [result |-> Failure("No company names found"), world |-> w]
        ELSE IF delivered
        THEN [result |-> [success |-> TRUE,
                          companies_pushed |-> Cardinality(unique_companies),
                          companies |-> unique_companies],
              world |-> [w EXCEPT
                  !.webhook = Append(@, Payload(campaign_id, unique_companies, "push_all")),
                  !.pushed_companies = MarkCompaniesAsPushed(@, campaign_id, unique_companies),
                  !.change_log = LogPushActivity(w.campaigns, @, campaign_id, "push_all",
                                                 Cardinality(unique_companies))]]
        ELSE [result |-> Failure("Failed to push to webhook"), world |-> w]

\* variant: push_new_companies marks the delta although the delivery failed
PushNewCompaniesMarksUndelivered(w, campaign_id, leads, delivered) ==
    LET unique_companies == UniqueCompanies(leads)
        new_companies == GetNewCompanies(w.pushed_companies, campaign_id, unique_companies)
    IN  IF leads = <<>>
        THEN [result |-> Failure("No leads found for campaign"), world |-> w]
        ELSE IF unique_companies = {}
        THEN [result |-> Failure("No company names found"), world |-> w]
        ELSE IF new_companies = {}
        THEN [result |-> Failure("No new companies to push"), world |-> w]
        ELSE IF delivered
        THEN [result |-> [success |-> TRUE,
                          companies_pushed |-> Cardinality(new_companies),
                          companies |-> new_companies],
              world |-> [w EXCEPT
                  !.webhook = Append(@, Payload(campaign_id, new_companies, "push_new")),
                  !.pushed_companies = MarkCompaniesAsPushed(@, campaign_id, new_companies),
                  !.change_log = LogPushActivity(w.campaigns, @, campaign_id, "push_new",
                                                 Cardinality(new_companies))]]
        ELSE [result |-> Failure("Failed to push to webhook"),
              world |-> [w EXCEPT
                  !.pushed_companies = MarkCompaniesAsPushed(@, campaign_id, new_companies)]]

\* push_new_companies(campaign_id, database) run on the world w
PushNewCompanies(w, campaign_id, leads, delivered) ==
    LET unique_companies == UniqueCompanies(leads)
        new_companies == GetNewCompanies(w.pushed_companies, campaign_id, unique_companies)
    IN  IF leads = <<>>
        THEN [result |-> Failure("No leads found for campaign"), world |-> w]
        ELSE IF unique_companies = {}
        THEN [result |-> Failure("No company names found"), world |-> w]
        ELSE IF new_companies = {}
        THEN [result |-> Failure("No new companies to push"), world |-> w]
        ELSE IF delivered
        THEN [result |-> [success |-> TRUE,
                          companies_pushed |-> Cardinality(new_companies),
                          companies |-> new_companies],
              world |-> [w EXCEPT
                  !.webhook = Append(@, Payload(campaign_id, new_companies, "push_new")),
                  !.pushed_companies = MarkCompaniesAsPushed(@, campaign_id, new_companies),
                  !.change_log = LogPushActivity(w.campaigns, @, campaign_id, "push_new",
                                                 Cardinality(new_companies))]]
        ELSE [result |-> Failure("Failed to push to webhook"), world |-> w]

\* variant: show_push_new does not look at has_ever_been_pushed
GetCampaignPushStatusNoEver(pc, campaign_id, leads) ==
    LET unique_companies == UniqueCompanies(leads)
        pushed == GetPushedCompanies(pc, campaign_id)
        new_companies == GetNewCompanies(pc, campaign_id, unique_companies)
    IN  IF leads = <<>> THEN Failure("No leads found for campaign")
        ELSE IF unique_companies = {} THEN Failure("No company names found")
        ELSE [success |-> TRUE,
              total_companies |-> Cardinality(unique_companies),
              new_companies |-> Cardinality(new_companies),
              has_new_companies |-> Cardinality(new_companies) > 0,
              has_ever_been_pushed |-> Cardinality(pushed) > 0,
              show_push_new |-> Cardinality(new_companies) > 0]

\* get_campaign_push_status(campaign_id, database): the dict it returns for
\* the pushed_companies table pc; it reads only
GetCampaignPushStatus(pc, campaign_id, leads) ==
    LET unique_companies == UniqueCompanies(leads)
        pushed == GetPushedCompanies(pc, campaign_id)
        has_ever_been_pushed == Cardinality(pushed) > 0
        new_companies == GetNewCompanies(pc, campaign_id, unique_companies)
    IN  IF leads = <<>> THEN Failure("No leads found for campaign")
        ELSE IF unique_companies = {} THEN Failure("No company names found")
        ELSE [success |-> TRUE,
              total_companies |-> Cardinality(unique_companies),
              new_companies |-> Cardinality(new_companies),
              has_new_companies |-> Cardinality(new_companies) > 0,
              has_ever_been_pushed |-> has_ever_been_pushed,
              show_push_new |-> has_ever_been_pushed /\ Cardinality(new_companies) > 0]

\* ------------------------------------------- campaign reconciliation (db)
\* snapshots handed to PushActivityDatabase.update_campaigns: lists of
\* campaign dicts; the source API lists every campaign once, so ids are
\* distinct within a snapshot
CampaignDicts == [id : CampaignIds, name : CampaignNames, status : Statuses]

Snapshots ==
    { s \in UNION { [1..n -> CampaignDicts] : n \in 0..Cardinality(CampaignIds) } :
        \A i, j \in 1..Len(s) : s[i].id = s[j].id => i = j }

\* the orders in which a Python set can be iterated
Orders(S) ==
    { o \in [1..Cardinality(S) -> S] : \A i, j \in 1..Cardinality(S) : o[i] = o[j] => i = j }

\* SELECT id, name, status FROM campaigns WHERE is_active = 1
CurrentCampaignIds(camps) == { id \in CampaignIds : camps[id].present /\ camps[id].is_active }

IdsOf(new_campaigns) == { new_campaigns[i].id : i \in 1..Len(new_campaigns) }

\* INSERT INTO campaigns: id is the PRIMARY KEY, so a row with that id,
\* active or not, makes the insert raise IntegrityError
InsertCampaign(camps, campaign) ==
    IF camps[campaign.id].present
    THEN [ok |-> FALSE, campaigns |-> camps]
    ELSE [ok |-> TRUE,
          campaigns |-> [camps EXCEPT ![campaign.id] =
                            [present |-> TRUE, name |-> campaign.name,
                             status |-> campaign.status, is_active |-> TRUE]]]

\* the working state of one update_campaigns call: the uncommitted tables,
\* the stats dict and whether a statement has raised
\* "Add new campaigns" loop
RECURSIVE AddLoop(_, _, _, _)
AddLoop(db, new_campaigns, added_campaigns, i) ==
    IF i > Len(new_campaigns) \/ db.raised THEN db
    ELSE LET campaign == new_campaigns[i]
             ins == InsertCampaign(db.campaigns, campaign)
             logged == InsertChangeLog(db.change_log,
                         [change_type |-> "campaign_added", campaign_id |-> campaign.id,
                          campaign_name |-> campaign.name])
         IN  IF campaign.id \notin added_campaigns
             THEN AddLoop(db, new_campaigns, added_campaigns, i + 1)
             ELSE IF ~ins.ok \/ ~logged.ok
             THEN [db EXCEPT !.raised = TRUE]
             ELSE AddLoop([db EXCEPT !.campaigns = ins.campaigns,
                                     !.change_log = logged.log,
                                     !.stats.campaigns_added = @ + 1],
                          new_campaigns, added_campaigns, i + 1)

\* variant: the removal is logged but the row stays active
RECURSIVE RemoveLoopKeepsActive(_, _, _, _)
RemoveLoopKeepsActive(db, current_campaigns, removed_order, i) ==
    IF i > Len(removed_order) \/ db.raised THEN db
    ELSE LET campaign_id == removed_order[i]
             logged == InsertChangeLog(db.change_log,
                         [change_type |-> "campaign_removed", campaign_id |-> campaign_id,
                          campaign_name |-> current_campaigns[campaign_id].name])
         IN  RemoveLoopKeepsActive([db EXCEPT !.change_log = logged.log,
                                              !.stats.campaigns_removed = @ + 1],
                                   current_campaigns, removed_order, i + 1)

\* variant: the removed campaign's row is deleted
RECURSIVE RemoveLoopDeletes(_, _, _, _)
RemoveLoopDeletes(db, current_campaigns, removed_order, i) ==
    IF i > Len(removed_order) \/ db.raised THEN db
    ELSE LET campaign_id == removed_order[i]
             logged == InsertChangeLog(db.change_log,
                         [change_type |-> "campaign_removed", campaign_id |-> campaign_id,
                          campaign_name |-> current_campaigns[campaign_id].name])
         IN  RemoveLoopDeletes([db EXCEPT !.campaigns[campaign_id] = NoRow,
                                          !.change_log = logged.log,
                                          !.stats.campaigns_removed = @ + 1],
                               current_campaigns, removed_order, i + 1)

\* variant: the removals are not counted
RECURSIVE RemoveLoopUncounted(_, _, _, _)
RemoveLoopUncounted(db, current_campaigns, removed_order, i) ==
    IF i > Len(removed_order) \/ db.raised THEN db
    ELSE LET campaign_id == removed_order[i]
             logged == InsertChangeLog(db.change_log,
                         [change_type |-> "campaign_removed", campaign_id |-> campaign_id,
                          campaign_name |-> current_campaigns[campaign_id].name])
         IN  RemoveLoopUncounted([db EXCEPT !.campaigns[campaign_id].is_active = FALSE,
                                            !.change_log = logged.log],
                                 current_campaigns, removed_order, i + 1)

\* "Mark removed campaigns as inactive" loop, in the set's iteration order
RECURSIVE RemoveLoop(_, _, _, _)
RemoveLoop(db, current_campaigns, removed_order, i) ==
    IF i > Len(removed_order) \/ db.raised THEN db
    ELSE LET campaign_id == removed_order[i]
             campaign_name == current_campaigns[campaign_id].name
             logged == InsertChangeLog(db.change_log,
                         [change_type |-> "campaign_removed", campaign_id |-> campaign_id,
                          campaign_name |-> campaign_name])
         IN  IF ~logged.ok
             THEN [db EXCEPT !.raised = TRUE]
             ELSE RemoveLoop([db EXCEPT !.campaigns[campaign_id].is_active = FALSE,
                                        !.change_log = logged.log,
                                        !.stats.campaigns_removed = @ + 1],
                             current_campaigns, removed_order, i + 1)

\* variant: a changed campaign is updated without a change-log entry
RECURSIVE UpdateLoopUnlogged(_, _, _, _)
UpdateLoopUnlogged(db, new_campaigns, current_campaigns, i) ==
    IF i > Len(new_campaigns) \/ db.raised THEN db
    ELSE LET campaign == new_campaigns[i]
             current_campaign == current_campaigns[campaign.id]
         IN  IF campaign.id \notin CurrentCampaignIds(current_campaigns)
             THEN UpdateLoopUnlogged(db, new_campaigns, current_campaigns, i + 1)
             ELSE IF current_campaign.name # campaign.name \/ current_campaign.status # campaign.status
             THEN UpdateLoopUnlogged([db EXCEPT !.campaigns[campaign.id].name = campaign.name,
                                                !.campaigns[campaign.id].status = campaign.status,
                                                !.stats.campaigns_updated = @ + 1],
                                     new_campaigns, current_campaigns, i + 1)
             ELSE UpdateLoopUnlogged(db, new_campaigns, current_campaigns, i + 1)

\* "Update existing campaigns" loop; the comparison is against the rows
\* read at the start of the call
RECURSIVE UpdateLoop(_, _, _, _)
UpdateLoop(db, new_campaigns, current_campaigns, i) ==
    IF i > Len(new_campaigns) \/ db.raised THEN db
    ELSE LET campaign == new_campaigns[i]
             current_campaign == current_campaigns[campaign.id]
             logged == InsertChangeLog(db.change_log,
                         [change_type |-> "campaign_updated", campaign_id |-> campaign.id,
                          campaign_name |-> campaign.name,
                          old_value |-> JsonDumps(current_campaign),
                          new_value |-> JsonDumps(campaign)])
         IN  IF campaign.id \notin CurrentCampaignIds(current_campaigns)
             THEN UpdateLoop(db, new_campaigns, current_campaigns, i + 1)
             ELSE IF current_campaign.name # campaign.name \/ current_campaign.status # campaign.status
             THEN IF ~logged.ok
                  THEN [db EXCEPT !.raised = TRUE]
                  ELSE UpdateLoop([db EXCEPT !.campaigns[campaign.id].name = campaign.name,
                                             !.campaigns[campaign.id].status = campaign.status,
                                             !.change_log = logged.log,
                                             !.stats.campaigns_updated = @ + 1],
                                  new_campaigns, current_campaigns, i + 1)
             ELSE UpdateLoop(db, new_campaigns, current_campaigns, i + 1)

\* duration_seconds of a sync_history row before it is patched
NullReal == -1

\* variant: the row is inserted with the default campaign counts
RecordSyncHistoryDefaults(db, history, new_campaigns) ==
    Append(history,
           [id |-> Len(history) + 1, sync_type |-> "incremental",
            campaigns_processed |-> 0, campaigns_added |-> 0, campaigns_removed |-> 0,
            leads_added |-> 0, leads_removed |-> 0,
            sync_timestamp |-> clock, duration_seconds |-> NullReal])

\* "Record sync history": INSERT INTO sync_history
RecordSyncHistory(db, history, new_campaigns) ==
    Append(history,
           [id |-> Len(history) + 1, sync_type |-> "incremental",
            campaigns_processed |-> Len(new_campaigns),
            campaigns_added |-> db.stats.campaigns_added,
            campaigns_removed |-> db.stats.campaigns_removed,
            leads_added |-> 0, leads_removed |-> 0,
            sync_timestamp |-> clock, duration_seconds |-> NullReal])

\* variant: every campaign of the snapshot counts as added
AddedCampaignsAll(current_campaign_ids, new_campaign_ids) == new_campaign_ids

\* "Find added and removed campaigns"
AddedCampaigns(current_campaign_ids, new_campaign_ids) ==
    new_campaign_ids \ current_campaign_ids

RemovedCampaigns(current_campaign_ids, new_campaign_ids) ==
    current_campaign_ids \ new_campaign_ids

\* the campaigns the update loop looks at, and those of them it updates
KeptCampaigns(current_campaign_ids, new_campaign_ids) ==
    new_campaign_ids \cap current_campaign_ids

ChangedCampaigns(camps, new_campaigns) ==
    { new_campaigns[i].id : i \in { j \in 1..Len(new_campaigns) :
        /\ new_campaigns[j].id \in CurrentCampaignIds(camps)
        /\ \/ camps[new_campaigns[j].id].name # new_campaigns[j].name
           \/ camps[new_campaigns[j].id].status # new_campaigns[j].status } }

\* the three loops of update_campaigns
Groups == { "add", "remove", "update" }

\* one of the loops run on the working state db of a call whose rows at its
\* start were camps
RunGroup(group, db, camps, new_campaigns, removed_order) ==
    IF group = "add"
    THEN AddLoop(db, new_campaigns,
                 AddedCampaigns(CurrentCampaignIds(camps), IdsOf(new_campaigns)), 1)
    ELSE IF group = "remove"
    THEN RemoveLoop(db, camps, removed_order, 1)
    ELSE UpdateLoop(db, new_campaigns, camps, 1)

\* the statements of update_campaigns with its loops taken in the order
\* group_order
UpdateCampaignsRunIn(group_order, camps, log, new_campaigns, removed_order) ==
    LET db0 == [campaigns |-> camps, change_log |-> log, raised |-> FALSE,
                stats |-> [campaigns_added |-> 0, campaigns_removed |-> 0,
                           campaigns_updated |-> 0]]
        db1 == RunGroup(group_order[1], db0, camps, new_campaigns, removed_order)
        db2 == RunGroup(group_order[2], db1, camps, new_campaigns, removed_order)
    IN  RunGroup(group_order[3], db2, camps, new_campaigns, removed_order)

\* the statements of PushActivityDatabase.update_campaigns up to its commit
UpdateCampaignsRun(camps, log, new_campaigns, removed_order) ==
    LET current_campaign_ids == CurrentCampaignIds(camps)
        new_campaign_ids == IdsOf(new_campaigns)
        added_campaigns == AddedCampaigns(current_campaign_ids, new_campaign_ids)
        db0 == [campaigns |-> camps, change_log |-> log, raised |-> FALSE,
                stats |-> [campaigns_added |-> 0, campaigns_removed |-> 0,
                           campaigns_updated |-> 0]]
        db1 == AddLoop(db0, new_campaigns, added_campaigns, 1)
        db2 == RemoveLoop(db1, camps, removed_order, 1)
    IN  UpdateLoop(db2, new_campaigns, camps, 1)

\* variant: update_campaigns commits the statements that ran before the one
\* that failed, and writes the sync_history row, before it raises
UpdateCampaignsCommitsPartial(w, new_campaigns, removed_order) ==
    LET db == UpdateCampaignsRun(w.campaigns, w.change_log, new_campaigns, removed_order)
    IN  IF db.raised
        THEN [raised |-> TRUE,
              world |-> [w EXCEPT !.campaigns = db.campaigns,
                                  !.change_log = db.change_log]]
        ELSE [raised |-> FALSE, stats |-> db.stats,
              world |-> [w EXCEPT !.campaigns = db.campaigns,
                                  !.change_log = db.change_log,
                                  !.sync_history = RecordSyncHistory(db, @, new_campaigns)]]

\* variant: update_campaigns gives every added campaign a fresh pushed set
UpdateCampaignsResetsPushed(w, new_campaigns, removed_order) ==
    LET db == UpdateCampaignsRun(w.campaigns, w.change_log, new_campaigns, removed_order)
        added == AddedCampaigns(CurrentCampaignIds(w.campaigns), IdsOf(new_campaigns))
    IN  IF db.raised
        THEN [raised |-> TRUE, world |-> w]
        ELSE [raised |-> FALSE, stats |-> db.stats,
              world |-> [w EXCEPT !.campaigns = db.campaigns,
                                  !.change_log = db.change_log,
                                  !.sync_history = RecordSyncHistory(db, @, new_campaigns),
                                  !.pushed_companies =
                                      [p \in DOMAIN @ |-> IF p[1] \in added THEN 0 ELSE @[p]]]]

\* PushActivityDatabase.update_campaigns(new_campaigns) run on the world w:
\* it commits everything at once and returns the stats, or raises and
\* leaves the store as it was
UpdateCampaigns(w, new_campaigns, removed_order) ==
    LET db == UpdateCampaignsRun(w.campaigns, w.change_log, new_campaigns, removed_order)
    IN  IF db.raised
        THEN [raised |-> TRUE, world |-> w]
        ELSE [raised |-> FALSE, stats |-> db.stats,
              world |-> [w EXCEPT !.campaigns = db.campaigns,
                                  !.change_log = db.change_log,
                                  !.sync_history = RecordSyncHistory(db, @, new_campaigns)]]

\* ------------------------------------------------ lead tracking (client)
\* the order in which the API returns the leads of a campaign
LeadIdSeq == << "l1", "l2" >>

\* companyName values of the leads fetched during a reconciliation pass
FetchedNames == { <<"a">>, <<SP, "b", SP>> }

\* lead lists fetched during a reconciliation pass: the i-th lead returned
\* has the i-th lead id; of a lead dict only _id and companyName are
\* represented (email and the other fields are absent, so .get gives None)
FetchedLeadLists ==
    UNION { { [i \in 1..n |-> [id |-> LeadIdSeq[i], companyName |-> names[i]]] :
                names \in [1..n -> FetchedNames] } : n \in 0..Len(LeadIdSeq) }

\* SELECT id ... FROM leads WHERE campaign_id = ? AND is_active = 1
CurrentLeadIds(tbl, campaign_id) ==
    { l \in LeadIds : tbl[l].present /\ tbl[l].campaign_id = campaign_id /\ tbl[l].is_active }

LeadIdsOf(new_leads) == { new_leads[i].id : i \in 1..Len(new_leads) }

\* the elements of S in the order they have in order
SubOrder(order, S) ==
    LET Test(x) == x \in S
    IN  SelectSeq(order, Test)

\* str(n) of a non-negative int
Digits == << "0", "1", "2", "3", "4", "5", "6", "7", "8", "9" >>

RECURSIVE Str(_)
Str(n) == IF n < 10 THEN << Digits[n + 1] >> ELSE Str(n \div 10) \o << Digits[(n % 10) + 1] >>

\* INSERT INTO leads: id is the PRIMARY KEY of the whole table, so a row
\* with that id, of any campaign, active or not, makes the insert raise
InsertLead(tbl, campaign_id, lead) ==
    IF tbl[lead.id].present
    THEN [ok |-> FALSE, leads |-> tbl]
    ELSE [ok |-> TRUE,
          leads |-> [tbl EXCEPT ![lead.id] =
                        [present |-> TRUE, campaign_id |-> campaign_id,
                         company_name |-> lead.companyName, is_active |-> TRUE]]]

\* "Process added leads" loop; db is the working state of one
\* track_lead_changes call: the uncommitted tables, the changes dict and
\* whether a statement has raised
RECURSIVE AddLeadLoop(_, _, _, _, _, _)
AddLeadLoop(db, campaign_id, campaign_name, new_leads, added_lead_ids, i) ==
    IF i > Len(new_leads) \/ db.raised THEN db
    ELSE LET lead == new_leads[i]
             ins == InsertLead(db.leads, campaign_id, lead)
             logged == InsertChangeLog(db.change_log,
                         [change_type |-> "lead_added", campaign_id |-> campaign_id,
                          campaign_name |-> campaign_name, lead_id |-> lead.id,
                          lead_email |-> NullText, lead_company |-> lead.companyName,
                          details |-> << "Lead added", lead.companyName >>])
         IN  IF lead.id \notin added_lead_ids
             THEN AddLeadLoop(db, campaign_id, campaign_name, new_leads, added_lead_ids, i + 1)
             ELSE IF ~ins.ok \/ ~logged.ok
             THEN [db EXCEPT !.raised = TRUE]
             ELSE AddLeadLoop([db EXCEPT !.leads = ins.leads,
                                         !.change_log = logged.log,
                                         !.changes.leads_added = @ + 1],
                              campaign_id, campaign_name, new_leads, added_lead_ids, i + 1)

\* "Process removed leads" loop, in the set's iteration order
RECURSIVE RemoveLeadLoop(_, _, _, _, _, _)
RemoveLeadLoop(db, campaign_id, campaign_name, current_leads, removed_order, i) ==
    IF i > Len(removed_order) \/ db.raised THEN db
    ELSE LET lead_id == removed_order[i]
             lead_data == current_leads[lead_id]
             logged == InsertChangeLog(db.change_log,
                         [change_type |-> "lead_removed", campaign_id |-> campaign_id,
                          campaign_name |-> campaign_name, lead_id |-> lead_id,
                          lead_email |-> NullText, lead_company |-> lead_data.company_name,
                          details |-> << "Lead removed", lead_data.company_name >>])
         IN  IF ~logged.ok
             THEN [db EXCEPT !.raised = TRUE]
             ELSE RemoveLeadLoop([db EXCEPT !.leads[lead_id].is_active = FALSE,
                                            !.change_log = logged.log,
                                            !.changes.leads_removed = @ + 1],
                                 campaign_id, campaign_name, current_leads, removed_order, i + 1)

\* "Calculate company count change" and its log entry
CompanyCountChange(db, campaign_id, campaign_name, current_leads, current_lead_ids, new_leads) ==
    LET old_company_count ==
            Cardinality({ current_leads[l].company_name :
                            l \in { k \in current_lead_ids : Truthy(current_leads[k].company_name) } })
        new_company_count ==
            Cardinality({ new_leads[i].companyName :
                            i \in { j \in 1..Len(new_leads) : Truthy(new_leads[j].companyName) } })
        company_count_change == new_company_count - old_company_count
        logged == InsertChangeLog(db.change_log,
                    [change_type |-> "company_count_changed", campaign_id |-> campaign_id,
                     campaign_name |-> campaign_name,
                     old_value |-> Str(old_company_count),
                     new_value |-> Str(new_company_count)])
    IN  IF db.raised THEN db
        ELSE IF company_count_change = 0
        THEN db
        ELSE IF ~logged.ok
        THEN [db EXCEPT !.raised = TRUE]
        ELSE [db EXCEPT !.change_log = logged.log,
                        !.changes.company_count_change = company_count_change]

\* the all-zero dict track_lead_changes returns from its except branch (its
\* added_leads and removed_leads lists are not represented)
NoChanges == [leads_added |-> 0, leads_removed |-> 0, company_count_change |-> 0]

\* track_lead_changes(campaign_id, campaign_name, new_leads) run on the
\* world w: it commits everything at once and returns the changes, or
\* swallows the exception of a failed statement, persists nothing and
\* returns the all-zero dict (failed tells the two apart; the caller cannot)
TrackLeadChanges(w, campaign_id, campaign_name, new_leads, lead_order) ==
    LET current_lead_ids == CurrentLeadIds(w.leads, campaign_id)
        new_lead_ids == LeadIdsOf(new_leads)
        added_lead_ids == new_lead_ids \ current_lead_ids
        removed_lead_ids == current_lead_ids \ new_lead_ids
        db0 == [leads |-> w.leads, change_log |-> w.change_log, raised |-> FALSE,
                changes |-> NoChanges]
        db1 == AddLeadLoop(db0, campaign_id, campaign_name, new_leads, added_lead_ids, 1)
        db2 == RemoveLeadLoop(db1, campaign_id, campaign_name, w.leads,
                              SubOrder(lead_order, removed_lead_ids), 1)
        db3 == CompanyCountChange(db2, campaign_id, campaign_name, w.leads,
                                  current_lead_ids, new_leads)
    IN  IF db3.raised
        THEN [failed |-> TRUE, changes |-> NoChanges, world |-> w]
        ELSE [failed |-> FALSE, changes |-> db3.changes,
              world |-> [w EXCEPT !.leads = db3.leads, !.change_log = db3.change_log]]

\* --------------------------------------------- reconciliation pass (client)
\* what the lead export of one campaign answers: a lead list, or a failure
LeadFetches ==
    { [ok |-> FALSE, leads |-> <<>>] } \cup { [ok |-> TRUE, leads |-> l] : l \in FetchedLeadLists }

\* get_campaign_leads: the leads, or [] when the request fails
GetCampaignLeads(fetch) == IF fetch.ok THEN fetch.leads ELSE <<>>

\* what the campaign list request answers: running campaigns, each listed
\* once and each with the answer of its lead export, or a failure
ApiCampaigns == [id : CampaignIds, name : CampaignNames, status : {"running"}, fetch : LeadFetches]

ApiResults ==
    { [ok |-> FALSE, campaigns |-> <<>>] } \cup
    { [ok |-> TRUE, campaigns |-> s] :
        s \in { q \in UNION { [1..n -> ApiCampaigns] : n \in 0..Cardinality(CampaignIds) } :
                  \A i, j \in 1..Len(q) : q[i].id = q[j].id => i = j } }

\* variant: one company name is enough
HasCompanyDataAny(fetched_leads) ==
    LET has_company_column ==
            \E i \in 1..Len(fetched_leads) : Truthy(fetched_leads[i].companyName)
        unique_companies == UniqueCompanies(fetched_leads)
    IN  fetched_leads # <<>> /\ has_company_column /\ Cardinality(unique_companies) > 0

\* the test of get_campaigns_with_company_data on the leads of a campaign
HasCompanyData(fetched_leads) ==
    LET has_company_column ==
            \E i \in 1..Len(fetched_leads) : Truthy(fetched_leads[i].companyName)
        unique_companies == UniqueCompanies(fetched_leads)
    IN  fetched_leads # <<>> /\ has_company_column /\ Cardinality(unique_companies) > 1

\* the loop of get_campaigns_with_company_data over the fetched campaigns
RECURSIVE FilterLoop(_, _)
FilterLoop(api_campaigns, i) ==
    IF i > Len(api_campaigns) THEN <<>>
    ELSE LET campaign == api_campaigns[i]
             fetched_leads == GetCampaignLeads(campaign.fetch)
         IN  IF HasCompanyData(fetched_leads)
             THEN << [id |-> campaign.id, name |-> campaign.name, status |-> campaign.status,
                      leads |-> fetched_leads] >> \o FilterLoop(api_campaigns, i + 1)
             ELSE FilterLoop(api_campaigns, i + 1)

\* get_campaigns_with_company_data: raises when the campaign list request
\* fails
GetCampaignsWithCompanyData(api) ==
    IF api.ok
    THEN [raised |-> FALSE, campaigns |-> FilterLoop(api.campaigns, 1)]
    ELSE [raised |-> TRUE, campaigns |-> <<>>]

\* "Track lead changes for each campaign" loop of the pass; run holds the
\* world, the worlds committed so far and the aggregated lead changes
RECURSIVE TrackLoop(_, _, _, _)
TrackLoop(run, filtered, lead_order, i) ==
    IF i > Len(filtered) THEN run
    ELSE LET campaign == filtered[i]
             tracked == TrackLeadChanges(run.world, campaign.id, campaign.name,
                                         campaign.leads, lead_order)
         IN  TrackLoop([world |-> tracked.world,
                        commits |-> IF tracked.failed THEN run.commits
                                    ELSE Append(run.commits, tracked.world),
                        leads_added |-> run.leads_added + tracked.changes.leads_added,
                        leads_removed |-> run.leads_removed + tracked.changes.leads_removed],
                       filtered, lead_order, i + 1)

\* duration_seconds written by the patch
Duration == 0

\* the rows SELECT id FROM sync_history ORDER BY sync_timestamp DESC LIMIT 1
\* can give: sqlite does not say which of the rows with the latest
\* timestamp comes first
LatestSyncIds(history) ==
    { i \in 1..Len(history) :
        \A j \in 1..Len(history) : history[j].sync_timestamp <= history[i].sync_timestamp }

\* the row of the latest ones that the subquery gives
PickSync(history, tie_break) ==
    LET latest == LatestSyncIds(history)
    IN  IF tie_break = "lowest"
        THEN CHOOSE i \in latest : \A j \in latest : i <= j
        ELSE CHOOSE i \in latest : \A j \in latest : j <= i

TieBreaks == { "lowest", "highest" }

\* "Update sync history with duration"
PatchSyncHistory(w, tie_break, leads_added, leads_removed) ==
    IF w.sync_history = <<>> THEN w
    ELSE [w EXCEPT !.sync_history[PickSync(w.sync_history, tie_break)] =
                      [@ EXCEPT !.duration_seconds = Duration,
                                !.leads_added = leads_added,
                                !.leads_removed = leads_removed]]

\* PushActivityClient.update_campaigns() run on the world w with the
\* answers api of the source API: whether it raises, and the worlds its
\* connections commit one after the other (the campaign diff, the lead diff
\* of each campaign that does not fail, the patch of the sync history)
ClientUpdateCampaigns(w, api, removed_order, lead_order, tie_break) ==
    LET fetched == GetCampaignsWithCompanyData(api)
        stats == UpdateCampaigns(w, fetched.campaigns, removed_order)
        tracked == TrackLoop([world |-> stats.world, commits |-> << stats.world >>,
                              leads_added |-> 0, leads_removed |-> 0],
                             fetched.campaigns, lead_order, 1)
        patched == PatchSyncHistory(tracked.world, tie_break,
                                    tracked.leads_added, tracked.leads_removed)
    IN  IF fetched.raised \/ stats.raised
        THEN [raised |-> TRUE, commits |-> <<>>]
        ELSE [raised |-> FALSE, commits |-> Append(tracked.commits, patched),
              campaigns_processed |-> Len(fetched.campaigns),
              leads_added |-> tracked.leads_added, leads_removed |-> tracked.leads_removed]

\* ------------------------------------- migrate_to_supabase.migrate_organizations
\* the rows of the sqlite organizations table, in the order fetchall
\* returns them: a row is its id and whether the remote table rejects it
OrgLists ==
    UNION { { [i \in 1..n |-> [id |-> i, rejected |-> r[i]]] : r \in [1..n -> BOOLEAN] }
            : n \in 0..MaxOrgs }

\* migrate_organizations before its first batch
StartOf(orgs) ==
    [orgs |-> orgs, i |-> 0, migrated |-> 0, remote |-> {}, requests |-> <<>>,
     returned |-> FALSE]

\* supabase.table("organizations").upsert(org_data).execute(): one request,
\* written whole or not at all; it raises when the table rejects one of its
\* rows or the service cannot be reached
Upsert(remote, org_data, unavailable) ==
    IF unavailable \/ \E k \in 1..Len(org_data) : org_data[k].rejected
    THEN [ok |-> FALSE, remote |-> remote]
    ELSE [ok |-> TRUE, remote |-> remote \cup { org_data[k].id : k \in 1..Len(org_data) }]

\* the request as the service has seen it
Request(org_data, ok) ==
    [ids |-> [k \in 1..Len(org_data) |-> org_data[k].id], ok |-> ok]

\* variant: the first row that fails on its own ends the retries
RECURSIVE RetryLoopStopsAtFailure(_, _, _)
RetryLoopStopsAtFailure(m, org_data, k) ==
    IF k > Len(org_data) THEN m
    ELSE LET up == Upsert(m.remote, <<org_data[k]>>, FALSE)
             logged == [m EXCEPT !.requests = Append(@, Request(<<org_data[k]>>, up.ok))]
         IN  IF up.ok
             THEN RetryLoopStopsAtFailure(
                      [logged EXCEPT !.remote = up.remote, !.migrated = @ + 1],
                      org_data, k + 1)
             ELSE logged

\* for single_org in org_data: upsert it alone, count it when that succeeds
RECURSIVE RetryLoop(_, _, _)
RetryLoop(m, org_data, k) ==
    IF k > Len(org_data) THEN m
    ELSE LET up == Upsert(m.remote, <<org_data[k]>>, FALSE)
             logged == [m EXCEPT !.requests = Append(@, Request(<<org_data[k]>>, up.ok))]
         IN  IF up.ok
             THEN RetryLoop([logged EXCEPT !.remote = up.remote, !.migrated = @ + 1],
                            org_data, k + 1)
             ELSE RetryLoop(logged, org_data, k + 1)

\* one iteration of `for i in range(0, len(orgs), batch_size)`
MigrateBatch(m, unavailable) ==
    LET last == IF m.i + BatchSize < Len(m.orgs) THEN m.i + BatchSize ELSE Len(m.orgs)
        org_data == SubSeq(m.orgs, m.i + 1, last)
        up == Upsert(m.remote, org_data, unavailable)
        logged == [m EXCEPT !.requests = Append(@, Request(org_data, up.ok)),
                            !.i = @ + BatchSize]
    IN  IF up.ok
        THEN [logged EXCEPT !.remote = up.remote, !.migrated = @ + Len(org_data)]
        ELSE IF Len(org_data) > 1
        THEN RetryLoop(logged, org_data, 1)
        ELSE logged

\* ------------------------------------------------------------------ system
Init ==
    /\ campaigns = [id \in CampaignIds |-> NoRow]
    /\ change_log = <<>>
    /\ sync_history = <<>>
    /\ pushed_companies = [p \in CampaignIds \X Companies |-> 0]
    /\ webhook = <<>>
    /\ leads_table = [id \in LeadIds |-> NoRow]
    /\ clock = 0
    /\ inflight = [p \in Procs |-> Idle]
    /\ migration = StartOf(<<>>)

PushAll ==
    \E c \in CampaignIds, leads \in LeadLists, delivered \in BOOLEAN :
        Becomes(PushAllCompanies(World, c, leads, delivered).world)

PushNew ==
    \E c \in CampaignIds, leads \in LeadLists, delivered \in BOOLEAN :
        Becomes(PushNewCompanies(World, c, leads, delivered).world)

GetStatus ==
    \E c \in CampaignIds, leads \in LeadLists :
        /\ GetCampaignPushStatus(pushed_companies, c, leads).success \in BOOLEAN
        /\ UNCHANGED vars

Reconcile ==
    \E s \in Snapshots :
        \E o \in Orders(CurrentCampaignIds(campaigns) \ IdsOf(s)) :
            Becomes(UpdateCampaigns(World, s, o).world)

\* the tie-breaks that can make a difference: a first sync_history row has
\* no other row to tie with
TieBreaksOf(history) == IF history = <<>> THEN { "highest" } ELSE TieBreaks

\* the iteration orders of removed lead ids that can make a difference
LeadOrdersOf(tbl) ==
    IF \E c \in CampaignIds : Cardinality(CurrentLeadIds(tbl, c)) > 1
    THEN Orders(LeadIds)
    ELSE { LeadIdSeq }

\* track_lead_changes called for a campaign with a fetched lead list
TrackLeads ==
    \E c \in CampaignIds, name \in CampaignNames, new_leads \in FetchedLeadLists,
       lead_order \in LeadOrdersOf(leads_table) :
        Becomes(TrackLeadChanges(World, c, name, new_leads, lead_order).world)

\* get_change_log called with a limit: reads only
ReadChangeLog ==
    \E limit \in 0..(Len(change_log) + 1) :
        /\ GetChangeLog(change_log, limit) # {}
        /\ UNCHANGED vars

\* one run of PushActivityClient.update_campaigns(); the process can stop
\* after any of its commits, and then the store is what that commit left
Pass ==
    \E api \in ApiResults, tie_break \in TieBreaksOf(sync_history),
       lead_order \in LeadOrdersOf(leads_table) :
        \E removed_order \in Orders(CurrentCampaignIds(campaigns)
                                      \ IdsOf(GetCampaignsWithCompanyData(api).campaigns)) :
            LET pass == ClientUpdateCampaigns(World, api, removed_order, lead_order, tie_break)
            IN  \E stop \in 0..Len(pass.commits) :
                    Becomes(IF stop = 0 THEN World ELSE pass.commits[stop])

\* CURRENT_TIMESTAMP moves on
Tick ==
    /\ clock' = clock + 1
    /\ UNCHANGED <<campaigns, change_log, sync_history, pushed_companies, webhook, leads_table,
                   inflight, migration>>

\* ---------------------------------------------- pushes running side by side
\* push_all_companies and push_new_companies hold no lock and span several
\* transactions: caller p's call is taken in three steps, and the steps of
\* another caller may fall between them.
\* First step, up to the webhook request: the leads are fetched and the
\* companies to send computed, for push_new from the pushed set as it is
\* now; a call that fails a guard returns at once
BeginPush(p) ==
    /\ inflight[p] = Idle
    /\ \E op \in {"push_all", "push_new"}, c \in CampaignIds, leads \in LeadLists :
          LET unique_companies == UniqueCompanies(leads)
              seen == GetPushedCompanies(pushed_companies, c)
              to_send == IF op = "push_all" THEN unique_companies
                         ELSE GetNewCompanies(pushed_companies, c, unique_companies)
          IN  /\ to_send # {}
              /\ inflight' = [inflight EXCEPT ![p] =
                                 [phase |-> "computed", op |-> op, campaign_id |-> c,
                                  seen |-> seen, companies |-> to_send]]
    /\ UNCHANGED <<campaigns, change_log, sync_history, pushed_companies, webhook,
                   leads_table, clock, migration>>

\* second step, push_companies_to_webhook: the webhook accepts the payload,
\* or the request fails and the call returns its failure
Deliver(p) ==
    /\ inflight[p].phase = "computed"
    /\ \E delivered \in BOOLEAN :
          IF delivered
          THEN /\ webhook' = Append(webhook, Payload(inflight[p].campaign_id,
                                                     inflight[p].companies, inflight[p].op))
               /\ inflight' = [inflight EXCEPT ![p].phase = "delivered"]
          ELSE /\ webhook' = webhook
               /\ inflight' = [inflight EXCEPT ![p] = Idle]
    /\ UNCHANGED <<campaigns, change_log, sync_history, pushed_companies, leads_table, clock,
                   migration>>

\* third step: mark_companies_as_pushed, one transaction, and
\* log_push_activity
Mark(p) ==
    /\ inflight[p].phase = "delivered"
    /\ pushed_companies' = MarkCompaniesAsPushed(pushed_companies, inflight[p].campaign_id,
                                                 inflight[p].companies)
    /\ change_log' = LogPushActivity(campaigns, change_log, inflight[p].campaign_id,
                                     inflight[p].op, Cardinality(inflight[p].companies))
    /\ inflight' = [inflight EXCEPT ![p].phase = "done"]
    /\ UNCHANGED <<campaigns, sync_history, webhook, leads_table, clock, migration>>

Commits == Len(webhook) + Len(sync_history)

\* every operation, in any order, until MaxCommits of them have committed
Next ==
    \/ Commits < MaxCommits /\ PushAll
    \/ Commits < MaxCommits /\ PushNew
    \/ Commits < MaxCommits /\ GetStatus
    \/ Commits < MaxCommits /\ Reconcile
    \/ Commits < MaxCommits /\ TrackLeads
    \/ Commits < MaxCommits /\ ReadChangeLog

Spec == Init /\ [][Next]_vars

\* the push client alone, until MaxDeliveries payloads have been delivered
NextPush ==
    \/ Len(webhook) < MaxDeliveries /\ PushAll
    \/ Len(webhook) < MaxDeliveries /\ PushNew
    \/ Len(webhook) < MaxDeliveries /\ GetStatus

SpecPush == Init /\ [][NextPush]_vars

\* campaign and lead reconciliation of the store and the reading of the
\* change log, until MaxSync campaign reconciliations have committed
NextReconcile ==
    \/ Len(sync_history) < MaxSync /\ Reconcile
    \/ Len(sync_history) < MaxSync /\ TrackLeads
    \/ Len(sync_history) < MaxSync /\ ReadChangeLog

SpecReconcile == Init /\ [][NextReconcile]_vars

\* reconciliation passes of the client, until MaxPasses of them have
\* recorded their sync_history row, and the clock
NextPass ==
    \/ Len(sync_history) < MaxPasses /\ Pass
    \/ clock < MaxClock /\ Tick

SpecPass == Init /\ [][NextPass]_vars

\* two callers, each making one push, their steps in any order
NextInterleaved ==
    \/ \E p \in Procs : BeginPush(p)
    \/ \E p \in Procs : Deliver(p)
    \/ \E p \in Procs : Mark(p)

SpecInterleaved == Init /\ [][NextInterleaved]_vars

\* migrate_organizations on any organizations table of at most MaxOrgs rows
InitMigrate ==
    /\ campaigns = [id \in CampaignIds |-> NoRow]
    /\ change_log = <<>>
    /\ sync_history = <<>>
    /\ pushed_companies = [p \in CampaignIds \X Companies |-> 0]
    /\ webhook = <<>>
    /\ leads_table = [id \in LeadIds |-> NoRow]
    /\ clock = 0
    /\ inflight = [p \in Procs |-> Idle]
    /\ migration \in { StartOf(orgs) : orgs \in OrgLists }

MigrateNextBatch ==
    /\ ~migration.returned
    /\ migration.i < Len(migration.orgs)
    /\ \E unavailable \in BOOLEAN : migration' = MigrateBatch(migration, unavailable)
    /\ UNCHANGED <<campaigns, change_log, sync_history, pushed_companies, webhook,
                   leads_table, clock, inflight>>

\* return migrated (0 at once when the table is empty)
MigrateReturn ==
    /\ ~migration.returned
    /\ migration.i >= Len(migration.orgs)
    /\ migration' = [migration EXCEPT !.returned = TRUE]
    /\ UNCHANGED <<campaigns, change_log, sync_history, pushed_companies, webhook,
                   leads_table, clock, inflight>>

NextMigrate ==
    \/ MigrateNextBatch
    \/ MigrateReturn

SpecMigrate == InitMigrate /\ [][NextMigrate]_vars

\* ================================================================ claims
\* the pushed set of a campaign, read off the table
PushedSetIn(pc, c) == { n \in Companies : pc[<<c, n>>] > 0 }
PushedSet(c) == PushedSetIn(pushed_companies, c)

\* the failure values of the NoCompanyData guard
NoCompanyDataErrors == { "No leads found for campaign", "No company names found" }

\* a lead list whose company names are the set S, one lead per name
RECURSIVE LeadsFor(_)
LeadsFor(S) ==
    IF S = {} THEN <<>>
    ELSE LET n == CHOOSE m \in S : TRUE
         IN  <<[companyName |-> n]>> \o LeadsFor(S \ {n})

\* the payloads delivered so far for campaign c by the operation sent_by
DeliveredBy(c, sent_by) ==
    { i \in 1..Len(webhook) : webhook[i].campaign_id = c /\ webhook[i].sent_by = sent_by }

\* C1: for every campaign, the payloads delivered by successful pushNew
\* calls are pairwise disjoint; and whatever the company set of the next
\* pushNew (stable, grown or other), the payload it returns is the payload
\* it delivers and repeats no name of an earlier pushNew payload
C1_NoRepeatAcrossPushNew ==
    /\ \A c \in CampaignIds : \A i, j \in DeliveredBy(c, "push_new") :
          i < j => webhook[i].companies \cap webhook[j].companies = {}
    /\ \A c \in CampaignIds, leads \in LeadLists :
          LET out == PushNewCompanies(World, c, leads, TRUE)
          IN  out.result.success
              => /\ out.world.webhook
                      = Append(webhook, Payload(c, out.result.companies, "push_new"))
                 /\ \A i \in DeliveredBy(c, "push_new") :
                        webhook[i].companies \cap out.result.companies = {}

\* two successful pushNew calls of one campaign, the second made with a
\* company set that had grown beyond what the first delivered
C1_Witness ==
    /\ Len(webhook) = 2
    /\ webhook[1].sent_by = "push_new" /\ webhook[2].sent_by = "push_new"
    /\ webhook[1].campaign_id = webhook[2].campaign_id
    /\ webhook[2].companies # {}
    /\ PushedSet(webhook[1].campaign_id) = webhook[1].companies \cup webhook[2].companies

\* C2 as stated: no company name is delivered twice for a campaign by any
\* sequence of pushAll and pushNew
C2_NoNameSentTwice ==
    \A i, j \in 1..Len(webhook) :
        (i < j /\ webhook[i].campaign_id = webhook[j].campaign_id)
        => webhook[i].companies \cap webhook[j].companies = {}

\* C2 amended: a pushNew never delivers a name that an earlier pushAll or
\* pushNew of the campaign delivered; only pushAll repeats names
C2_PushNewNeverRepeats ==
    \A i, j \in 1..Len(webhook) :
        ( /\ i < j
          /\ webhook[i].campaign_id = webhook[j].campaign_id
          /\ webhook[j].sent_by = "push_new" )
        => webhook[i].companies \cap webhook[j].companies = {}

\* a pushNew delivered after a pushAll of the same campaign
C2_Witness ==
    /\ Len(webhook) = 2
    /\ webhook[1].sent_by = "push_all" /\ webhook[2].sent_by = "push_new"
    /\ webhook[1].campaign_id = webhook[2].campaign_id

\* C3: in every step of every operation (reconcile, push, status) the
\* pushed set of every campaign keeps all its names, a push that delivers
\* leaves the names it marked in the pushed set, and no (campaign, company)
\* pair is stored twice
C3_PushedSetMonotonic ==
    [][ /\ \A c \in CampaignIds : PushedSet(c) \subseteq PushedSetIn(pushed_companies', c)
        /\ webhook' # webhook
              => webhook'[Len(webhook')].companies
                    \subseteq PushedSetIn(pushed_companies', webhook'[Len(webhook')].campaign_id)
        /\ \A p \in CampaignIds \X Companies : pushed_companies'[p] <= 1 ]_vars

\* a reconciliation and a push of a campaign it knows have both committed,
\* and the names the push marked are in the pushed set
C3_Witness ==
    /\ Len(sync_history) = 1
    /\ Len(webhook) = 1
    /\ webhook[1].companies # {}
    /\ webhook[1].companies \subseteq PushedSet(webhook[1].campaign_id)
    /\ campaigns[webhook[1].campaign_id].present

\* C4 as stated: pushNew returns NoNewCompanies when delta is empty, sending
\* nothing and leaving the pushed set; otherwise it returns delta and the
\* pushed set becomes its previous value united with delta
C4_PushNewAsStated ==
    \A c \in CampaignIds, leads \in LeadLists, delivered \in BOOLEAN :
        LET out == PushNewCompanies(World, c, leads, delivered)
            delta == UniqueCompanies(leads) \ PushedSet(c)
        IN  IF delta = {}
            THEN /\ out.result = Failure("No new companies to push")
                 /\ out.world.webhook = webhook
                 /\ out.world.pushed_companies = pushed_companies
            ELSE /\ out.result.success
                 /\ out.result.companies = delta
                 /\ PushedSetIn(out.world.pushed_companies, c) = PushedSet(c) \cup delta

\* C4 amended: an empty current set gives the NoCompanyData failure, a
\* non-empty one with an empty delta the NoNewCompanies failure, both
\* sending nothing and leaving the pushed set; with a non-empty delta a
\* successful delivery returns and delivers exactly delta and unites it into
\* the pushed set, and a failed delivery returns a failure, sends nothing
\* and leaves the pushed set
C4_PushNewContract ==
    \A c \in CampaignIds, leads \in LeadLists, delivered \in BOOLEAN :
        LET out == PushNewCompanies(World, c, leads, delivered)
            current == UniqueCompanies(leads)
            delta == current \ PushedSet(c)
        IN  IF current = {}
            THEN /\ ~out.result.success
                 /\ out.result.error \in NoCompanyDataErrors
                 /\ out.world.webhook = webhook
                 /\ out.world.pushed_companies = pushed_companies
            ELSE IF delta = {}
            THEN /\ out.result = Failure("No new companies to push")
                 /\ out.world.webhook = webhook
                 /\ out.world.pushed_companies = pushed_companies
            ELSE IF delivered
            THEN /\ out.result = [success |-> TRUE, companies_pushed |-> Cardinality(delta),
                                  companies |-> delta]
                 /\ out.world.webhook = Append(webhook, Payload(c, delta, "push_new"))
                 /\ PushedSetIn(out.world.pushed_companies, c) = PushedSet(c) \cup delta
                 /\ \A d \in CampaignIds \ {c} :
                        PushedSetIn(out.world.pushed_companies, d) = PushedSet(d)
            ELSE /\ out.result = Failure("Failed to push to webhook")
                 /\ out.world.webhook = webhook
                 /\ out.world.pushed_companies = pushed_companies

\* a pushNew has delivered a non-empty delta for a campaign whose pushed set
\* was not empty, and the pushed set is the earlier one united with delta
C4_Witness ==
    /\ Len(webhook) = 2
    /\ webhook[2].sent_by = "push_new"
    /\ webhook[1].campaign_id = webhook[2].campaign_id
    /\ webhook[2].companies # {}
    /\ webhook[1].companies \cap webhook[2].companies = {}
    /\ PushedSet(webhook[2].campaign_id) = webhook[1].companies \cup webhook[2].companies

\* C5 as stated: pushAll returns NoCompanyData for an empty current set and
\* otherwise returns the whole current set and unites it into the pushed set
C5_PushAllAsStated ==
    \A c \in CampaignIds, leads \in LeadLists, delivered \in BOOLEAN :
        LET out == PushAllCompanies(World, c, leads, delivered)
            current == UniqueCompanies(leads)
        IN  IF current = {}
            THEN /\ ~out.result.success
                 /\ out.result.error \in NoCompanyDataErrors
                 /\ out.world.pushed_companies = pushed_companies
            ELSE /\ out.result.success
                 /\ out.result.companies = current
                 /\ PushedSetIn(out.world.pushed_companies, c) = PushedSet(c) \cup current

\* C5 amended: as stated when the delivery succeeds, whatever was pushed
\* before; when the delivery fails pushAll returns a failure, and leaves the
\* pushed set
C5_PushAllContract ==
    \A c \in CampaignIds, leads \in LeadLists, delivered \in BOOLEAN :
        LET out == PushAllCompanies(World, c, leads, delivered)
            current == UniqueCompanies(leads)
        IN  IF current = {}
            THEN /\ ~out.result.success
                 /\ out.result.error \in NoCompanyDataErrors
                 /\ out.world.webhook = webhook
                 /\ out.world.pushed_companies = pushed_companies
            ELSE IF delivered
            THEN /\ out.result = [success |-> TRUE, companies_pushed |-> Cardinality(current),
                                  companies |-> current]
                 /\ out.world.webhook = Append(webhook, Payload(c, current, "push_all"))
                 /\ PushedSetIn(out.world.pushed_companies, c) = PushedSet(c) \cup current
                 /\ \A d \in CampaignIds \ {c} :
                        PushedSetIn(out.world.pushed_companies, d) = PushedSet(d)
            ELSE /\ out.result = Failure("Failed to push to webhook")
                 /\ out.world.webhook = webhook
                 /\ out.world.pushed_companies = pushed_companies

\* a pushAll has delivered, whole, a company set of two names of which one
\* had been delivered before
C5_Witness ==
    /\ Len(webhook) = 2
    /\ webhook[2].sent_by = "push_all"
    /\ webhook[1].campaign_id = webhook[2].campaign_id
    /\ webhook[1].companies \cap webhook[2].companies # {}
    /\ webhook[2].count = 2
    /\ PushedSet(webhook[2].campaign_id) = webhook[2].companies

\* the status fields the claim lists, for a current set and a pushed set
StatusFieldsHold(r, current, pushed) ==
    /\ r.success
    /\ r.total_companies = Cardinality(current)
    /\ r.new_companies = Cardinality(current \ pushed)
    /\ r.has_new_companies = (r.new_companies > 0)
    /\ r.has_ever_been_pushed = (Cardinality(pushed) > 0)
    /\ r.show_push_new = (r.has_ever_been_pushed /\ r.has_new_companies)

\* C6 as stated: getStatus returns the listed fields for every current set
C6_StatusAsStated ==
    \A c \in CampaignIds, leads \in LeadLists :
        StatusFieldsHold(GetCampaignPushStatus(pushed_companies, c, leads),
                         UniqueCompanies(leads), PushedSet(c))

\* C6 amended: getStatus returns the listed fields for every non-empty
\* current set, and the NoCompanyData failure for an empty one
C6_StatusContract ==
    \A c \in CampaignIds, leads \in LeadLists :
        LET r == GetCampaignPushStatus(pushed_companies, c, leads)
        IN  IF UniqueCompanies(leads) = {}
            THEN ~r.success /\ r.error \in NoCompanyDataErrors
            ELSE StatusFieldsHold(r, UniqueCompanies(leads), PushedSet(c))

\* a campaign with something pushed whose status, for a set of two names,
\* shows push-new with one new company; another campaign has nothing pushed
C6_Witness ==
    \E c \in CampaignIds, leads \in LeadLists :
        LET r == GetCampaignPushStatus(pushed_companies, c, leads)
        IN  /\ r.success /\ r.show_push_new
            /\ r.new_companies = 1 /\ r.total_companies = 2
            /\ \E d \in CampaignIds \ {c} : PushedSet(d) = {}

\* getStatus(c, S) right after a successful push of S reports nothing new
NothingNewAfter(out, c, leads) ==
    out.result.success
        => LET r == GetCampaignPushStatus(out.world.pushed_companies, c, leads)
           IN  r.success /\ ~r.has_new_companies /\ ~r.show_push_new

\* C7 as stated: right after a successful pushAll(c, S) or pushNew(c, S),
\* getStatus(c, S) reports no new companies and no push-new; and
\* pushNew(c, S \cup T) right after pushAll(c, S) returns exactly T \ S
C7_AfterPushAsStated ==
    \A c \in CampaignIds, leads \in LeadLists :
        LET S == UniqueCompanies(leads)
            pushed_all == PushAllCompanies(World, c, leads, TRUE)
        IN  /\ NothingNewAfter(pushed_all, c, leads)
            /\ NothingNewAfter(PushNewCompanies(World, c, leads, TRUE), c, leads)
            /\ pushed_all.result.success
                  => \A T \in SUBSET Companies :
                        LET pushed_new == PushNewCompanies(pushed_all.world, c, leads \o LeadsFor(T), TRUE)
                        IN  T \ S # {} => /\ pushed_new.result.success
                                          /\ pushed_new.result.companies = T \ S

\* C7 amended: the status part as stated; pushNew(c, S \cup T) right after
\* pushAll(c, S) returns the names of T \ S that had not been pushed for c
\* before the pushAll, which is all of T \ S when nothing outside S had been
\* pushed, and the NoNewCompanies failure when every name of T \ S had been
C7_AfterPush ==
    \A c \in CampaignIds, leads \in LeadLists :
        LET S == UniqueCompanies(leads)
            pushed_all == PushAllCompanies(World, c, leads, TRUE)
        IN  /\ NothingNewAfter(pushed_all, c, leads)
            /\ NothingNewAfter(PushNewCompanies(World, c, leads, TRUE), c, leads)
            /\ pushed_all.result.success
                  => \A T \in SUBSET Companies :
                        LET pushed_new == PushNewCompanies(pushed_all.world, c, leads \o LeadsFor(T), TRUE)
                            rest == (T \ S) \ PushedSet(c)
                        IN  /\ rest # {} => /\ pushed_new.result.success
                                            /\ pushed_new.result.companies = rest
                            /\ (T \ S # {} /\ rest = {})
                                  => pushed_new.result = Failure("No new companies to push")
                            /\ PushedSet(c) \subseteq S => rest = T \ S

\* pushAll(c, S) then pushNew(c, S \cup T) have delivered S and T \ S, and
\* the status of S \cup T reports nothing new
C7_Witness ==
    /\ Len(webhook) = 2
    /\ webhook[1].sent_by = "push_all" /\ webhook[2].sent_by = "push_new"
    /\ webhook[1].campaign_id = webhook[2].campaign_id
    /\ LET r == GetCampaignPushStatus(pushed_companies, webhook[1].campaign_id,
                    LeadsFor(webhook[1].companies \cup webhook[2].companies))
       IN  r.success /\ r.total_companies = 2 /\ ~r.has_new_companies /\ ~r.show_push_new

\* what C8 asks of a successful push of type push_type
PushIsLogged(out, c, push_type) ==
    out.result.success
        => /\ out.result.companies \subseteq PushedSetIn(out.world.pushed_companies, c)
           /\ Len(out.world.change_log) = Len(change_log) + 1
           /\ out.world.change_log[Len(out.world.change_log)].change_type = push_type
           /\ out.world.change_log[Len(out.world.change_log)].campaign_id = c

\* C8: every successful push marks its companies and appends exactly one
\* change-log entry carrying the push type
C8_PushLogged ==
    \A c \in CampaignIds, leads \in LeadLists :
        /\ PushIsLogged(PushAllCompanies(World, c, leads, TRUE), c, "push_all")
        /\ PushIsLogged(PushNewCompanies(World, c, leads, TRUE), c, "push_new")

\* C9: from every reachable store and for every snapshot, the second of two
\* reconciliations in a row with that snapshot appends no change-log entry
\* and changes no campaign row
C9_ReconcileIdempotent ==
    \A s \in Snapshots :
        \A o1 \in Orders(CurrentCampaignIds(campaigns) \ IdsOf(s)) :
            LET first == UpdateCampaigns(World, s, o1).world
            IN  \A o2 \in Orders(CurrentCampaignIds(first.campaigns) \ IdsOf(s)) :
                    LET second == UpdateCampaigns(first, s, o2).world
                    IN  /\ second.change_log = first.change_log
                        /\ second.campaigns = first.campaigns

\* two reconciliations of one two-campaign snapshot have committed: the
\* first added both campaigns, the second found nothing to do
C9_Witness ==
    /\ Len(sync_history) = 2
    /\ sync_history[1].campaigns_processed = 2 /\ sync_history[1].campaigns_added = 2
    /\ sync_history[2].campaigns_processed = 2 /\ sync_history[2].campaigns_added = 0
    /\ sync_history[2].campaigns_removed = 0
    /\ Len(change_log) = 2
    /\ \A id \in CampaignIds : campaigns[id].present /\ campaigns[id].is_active

\* the change-log entries of a type and campaign id
EntriesOf(log, type, id) ==
    { i \in 1..Len(log) : log[i].change_type = type /\ log[i].campaign_id = id }

\* C10: a reconciliation whose snapshot holds an id the store has no row
\* for inserts an active row with the snapshot's name and status and appends
\* exactly one campaign_added entry for the id
C10_FirstAppearanceAdded ==
    \A s \in Snapshots :
        \A o \in Orders(CurrentCampaignIds(campaigns) \ IdsOf(s)) :
            LET out == UpdateCampaigns(World, s, o).world
            IN  \A i \in 1..Len(s) :
                    ~campaigns[s[i].id].present
                    => /\ out.campaigns[s[i].id] =
                            [present |-> TRUE, name |-> s[i].name,
                             status |-> s[i].status, is_active |-> TRUE]
                       /\ Cardinality(EntriesOf(out.change_log, "campaign_added", s[i].id))
                            = Cardinality(EntriesOf(change_log, "campaign_added", s[i].id)) + 1


\* the result of update_campaigns for every snapshot of the current store
Reconciled(s, o) == UpdateCampaigns(World, s, o)

\* the removal orders of snapshot s in the current store
RemovalOrders(s) == Orders(CurrentCampaignIds(campaigns) \ IdsOf(s))

\* C11: a reconciliation whose snapshot holds a soft-deleted campaign
\* completes without error, leaves the campaign active and appends exactly
\* one campaign_added entry for it
C11_ReAddedAfterSoftDelete ==
    \A s \in Snapshots : \A o \in RemovalOrders(s) :
        LET out == Reconciled(s, o)
        IN  \A i \in 1..Len(s) :
                (campaigns[s[i].id].present /\ ~campaigns[s[i].id].is_active)
                => /\ ~out.raised
                   /\ out.world.campaigns[s[i].id].is_active
                   /\ Cardinality(EntriesOf(out.world.change_log, "campaign_added", s[i].id))
                        = Cardinality(EntriesOf(change_log, "campaign_added", s[i].id)) + 1

\* C12: a reconciliation whose snapshot lacks an active campaign leaves the
\* row inactive with its stored name and status and appends exactly one
\* campaign_removed entry for it; a campaign that is already inactive and
\* absent gets no further campaign_removed entry
C12_RemovedSoftDeleted ==
    \A s \in Snapshots : \A o \in RemovalOrders(s) :
        LET out == Reconciled(s, o)
        IN  \A id \in CampaignIds \ IdsOf(s) :
                /\ (campaigns[id].present /\ campaigns[id].is_active)
                   => /\ out.world.campaigns[id] = [campaigns[id] EXCEPT !.is_active = FALSE]
                      /\ Cardinality(EntriesOf(out.world.change_log, "campaign_removed", id))
                           = Cardinality(EntriesOf(change_log, "campaign_removed", id)) + 1
                /\ (campaigns[id].present /\ ~campaigns[id].is_active)
                   => /\ out.world.campaigns[id] = campaigns[id]
                      /\ EntriesOf(out.world.change_log, "campaign_removed", id)
                           = EntriesOf(change_log, "campaign_removed", id)

\* the campaign_updated entries of campaign id that log appends to the
\* current change log
NewUpdatedEntries(log, id) ==
    { i \in EntriesOf(log, "campaign_updated", id) : i > Len(change_log) }

\* C13: for every campaign that is active in the store and present in the
\* snapshot, a reconciliation updates the row and appends one
\* campaign_updated entry, holding the stored values as old value and the
\* snapshot's as new value, exactly if name or status differs; afterwards
\* the row holds the snapshot's values
C13_ChangedUpdated ==
    \A s \in Snapshots : \A o \in RemovalOrders(s) :
        LET out == Reconciled(s, o)
        IN  \A i \in 1..Len(s) :
                LET id == s[i].id
                    row == campaigns[id]
                    entries == NewUpdatedEntries(out.world.change_log, id)
                IN  (row.present /\ row.is_active)
                    => /\ out.world.campaigns[id] =
                            [present |-> TRUE, name |-> s[i].name, status |-> s[i].status,
                             is_active |-> TRUE]
                       /\ IF row.name # s[i].name \/ row.status # s[i].status
                          THEN /\ Cardinality(entries) = 1
                               /\ \A e \in entries :
                                    /\ out.world.change_log[e].old_value = JsonDumps(row)
                                    /\ out.world.change_log[e].new_value = JsonDumps(s[i])
                          ELSE entries = {}

\* the ids of the campaign rows and of the lead rows of the store
PresentCampaigns(tbl) == { id \in CampaignIds : tbl[id].present }

PresentLeads(tbl) == { id \in LeadIds : tbl[id].present }

\* C14: no step of a reconciliation or a push removes a campaign row or a
\* lead row from the store, active or not
C14_NeverDeleted ==
    [][ /\ PresentCampaigns(campaigns) \subseteq PresentCampaigns(campaigns')
        /\ PresentLeads(leads_table) \subseteq PresentLeads(leads_table') ]_vars

\* a campaign was soft-deleted and its row is still in the store
C14_Witness ==
    \E id \in CampaignIds :
        /\ campaigns[id].present /\ ~campaigns[id].is_active
        /\ EntriesOf(change_log, "campaign_removed", id) # {}

\* the entries of a type that log holds for a campaign beyond the first n
AppendedFor(log, n, type, id) == { i \in EntriesOf(log, type, id) : i > n }

\* the entries of a type that log holds for a lead
LeadEntriesOf(log, type, id) ==
    { i \in 1..Len(log) : log[i].change_type = type /\ log[i].lead_id = id }

CampaignTypes == { "campaign_added", "campaign_removed", "campaign_updated" }

LeadTypes == { "lead_added", "lead_removed" }

\* one when the condition holds, else zero
Count(condition) == IF condition THEN 1 ELSE 0

\* in one step every campaign is inserted, soft-deleted or updated exactly
\* if one entry of that type is appended for it, and the same for leads
StepPaired ==
    /\ \A id \in CampaignIds :
        LET old == campaigns[id]
            new == campaigns'[id]
            appended(type) == Cardinality(AppendedFor(change_log', Len(change_log), type, id))
        IN  /\ appended("campaign_added") = Count(~old.present /\ new.present)
            /\ appended("campaign_removed") =
                 Count(old.present /\ new.present /\ old.is_active /\ ~new.is_active)
            /\ appended("campaign_updated") =
                 Count(old.present /\ new.present /\ old.is_active /\ new.is_active /\ old # new)
            /\ (old.present /\ ~old.is_active) => new = old
            /\ old.present => new.present
    /\ \A id \in LeadIds :
        LET old == leads_table[id]
            new == leads_table'[id]
            appended(type) == Cardinality({ i \in LeadEntriesOf(change_log', type, id) :
                                            i > Len(change_log) })
        IN  /\ appended("lead_added") = Count(~old.present /\ new.present)
            /\ appended("lead_removed") =
                 Count(old.present /\ new.present /\ old.is_active /\ ~new.is_active)
            /\ (old.present /\ new.present /\ old.is_active = new.is_active) => new = old
            /\ old.present => new.present

\* every row of the store has the entries of its mutations and every entry
\* of a campaign or lead type belongs to a row
StatePaired ==
    /\ \A id \in CampaignIds :
        /\ Cardinality(EntriesOf(change_log, "campaign_added", id))
             = Count(campaigns[id].present)
        /\ Cardinality(EntriesOf(change_log, "campaign_removed", id))
             = Count(campaigns[id].present /\ ~campaigns[id].is_active)
        /\ EntriesOf(change_log, "campaign_updated", id) # {} => campaigns[id].present
    /\ \A id \in LeadIds :
        /\ Cardinality(LeadEntriesOf(change_log, "lead_added", id))
             = Count(leads_table[id].present)
        /\ Cardinality(LeadEntriesOf(change_log, "lead_removed", id))
             = Count(leads_table[id].present /\ ~leads_table[id].is_active)
    /\ \A i \in 1..Len(change_log) :
        /\ change_log[i].change_type \in CampaignTypes => change_log[i].campaign_id \in CampaignIds
        /\ change_log[i].change_type \in LeadTypes => change_log[i].lead_id \in LeadIds

\* C15: in every persisted state, and in every step between two of them,
\* the inserts, soft-deletes and updates of campaigns and leads and the
\* change-log entries of the matching types are paired one to one
C15_MutationsPaired == []StatePaired /\ [][StepPaired]_vars

\* a campaign was inserted and updated and another one inserted and
\* soft-deleted, each with its entries
C15_Witness ==
    \E id, other \in CampaignIds :
        /\ campaigns[id].present /\ campaigns[id].is_active
        /\ Cardinality(EntriesOf(change_log, "campaign_added", id)) = 1
        /\ Cardinality(EntriesOf(change_log, "campaign_updated", id)) = 1
        /\ campaigns[other].present /\ ~campaigns[other].is_active
        /\ Cardinality(EntriesOf(change_log, "campaign_added", other)) = 1
        /\ Cardinality(EntriesOf(change_log, "campaign_removed", other)) = 1

\* what a run persists when the process stops after its first n commits
PersistedAfter(pass, n) == IF n = 0 THEN World ELSE pass.commits[n]

\* C16: a pass that raises, or that stops before its last commit, leaves
\* the store as it was before the pass
C16_PassAtomic ==
    \A api \in ApiResults, tie_break \in TieBreaksOf(sync_history),
       lead_order \in LeadOrdersOf(leads_table) :
        \A removed_order \in Orders(CurrentCampaignIds(campaigns)
                                      \ IdsOf(GetCampaignsWithCompanyData(api).campaigns)) :
            LET pass == ClientUpdateCampaigns(World, api, removed_order, lead_order, tie_break)
            IN  \A n \in 0..(Len(pass.commits) - 1) : PersistedAfter(pass, n) = World

\* the campaign list request or the lead export of a campaign fails
RetrievalFails(api) ==
    \/ ~api.ok
    \/ \E i \in 1..Len(api.campaigns) : ~api.campaigns[i].fetch.ok

\* C17: a pass in which the campaign list request or the lead export of a
\* campaign fails changes no campaign row and no lead row and appends no
\* change-log entry
C17_RetrievalFailureAborts ==
    \A api \in ApiResults, tie_break \in TieBreaksOf(sync_history),
       lead_order \in LeadOrdersOf(leads_table) :
        \A removed_order \in Orders(CurrentCampaignIds(campaigns)
                                      \ IdsOf(GetCampaignsWithCompanyData(api).campaigns)) :
            LET pass == ClientUpdateCampaigns(World, api, removed_order, lead_order, tie_break)
            IN  RetrievalFails(api)
                => \A n \in 0..Len(pass.commits) :
                     /\ PersistedAfter(pass, n).campaigns = campaigns
                     /\ PersistedAfter(pass, n).leads = leads_table
                     /\ PersistedAfter(pass, n).change_log = change_log

\* C18: every step leaves the entries of the change log as they are and
\* gives every entry it appends an id greater than the ids of all entries
\* before it
C18_AppendOnly ==
    [][ /\ Len(change_log') >= Len(change_log)
        /\ \A i \in 1..Len(change_log) : change_log'[i] = change_log[i]
        /\ \A i \in (Len(change_log) + 1)..Len(change_log') :
             \A j \in 1..(i - 1) : change_log'[i].id > change_log'[j].id ]_vars

\* the log holds entries of several operations, with increasing ids
C18_Witness ==
    /\ Len(change_log) >= 3
    /\ \A i \in 1..Len(change_log) : change_log[i].id = i
    /\ \E i, j \in 1..Len(change_log) :
         /\ change_log[i].change_type = "campaign_added"
         /\ change_log[j].change_type = "campaign_removed"

\* C19: get_change_log(limit) returns min(limit, total) entries, none of
\* them older than an entry it leaves out, newest first, and entries with
\* equal timestamps by descending id
C19_ChangeLogNewestFirst ==
    \A limit \in 0..(Len(change_log) + 1) :
        \A rows \in GetChangeLogRows(change_log, limit) :
            /\ Len(rows) = IF limit < Len(change_log) THEN limit ELSE Len(change_log)
            /\ \A i, j \in 1..Len(rows) :
                 i < j =>
                   \/ change_log[rows[i]].change_timestamp > change_log[rows[j]].change_timestamp
                   \/ /\ change_log[rows[i]].change_timestamp
                           = change_log[rows[j]].change_timestamp
                      /\ change_log[rows[i]].id > change_log[rows[j]].id
            /\ \A i \in 1..Len(rows) :
                 \A k \in (1..Len(change_log)) \ { rows[j] : j \in 1..Len(rows) } :
                   \/ change_log[rows[i]].change_timestamp > change_log[k].change_timestamp
                   \/ /\ change_log[rows[i]].change_timestamp = change_log[k].change_timestamp
                      /\ change_log[rows[i]].id > change_log[k].id

\* C20: track_lead_changes stores every lead of the snapshot that is not
\* an active stored lead of the campaign as an active lead of it, appends
\* exactly one lead_added entry for it and returns their number as
\* leads_added
C20_AddedLeadsStored ==
    \A c \in CampaignIds, name \in CampaignNames, new_leads \in FetchedLeadLists,
       lead_order \in LeadOrdersOf(leads_table) :
        LET out == TrackLeadChanges(World, c, name, new_leads, lead_order)
            added == LeadIdsOf(new_leads) \ CurrentLeadIds(leads_table, c)
        IN  /\ \A id \in added :
                 /\ out.world.leads[id].present
                 /\ out.world.leads[id].campaign_id = c
                 /\ out.world.leads[id].is_active
                 /\ Cardinality(LeadEntriesOf(out.world.change_log, "lead_added", id))
                      = Cardinality(LeadEntriesOf(change_log, "lead_added", id)) + 1
            /\ out.changes.leads_added = Cardinality(added)

\* two track_lead_changes calls one after the other from the current
\* store: the first for campaign a with the lead list first, the second for
\* campaign b with the lead list second
TrackedTwice(a, b, name, first, second, lead_order) ==
    LET stored == TrackLeadChanges(World, a, name, first, lead_order)
    IN  [stored |-> stored,
         out |-> TrackLeadChanges(stored.world, b, name, second, lead_order)]

\* the companyName the lead list gives the lead id
CompanyIn(lead_list, id) ==
    LET i == CHOOSE j \in 1..Len(lead_list) : lead_list[j].id = id
    IN  lead_list[i].companyName

\* C21: when a campaign without stored leads is reconciled with one lead
\* list and then with a second one, every lead of the first list that the
\* second lacks is kept as an inactive row, one lead_removed entry with its
\* stored company is appended for it by the second call, and the second
\* call returns their number as leads_removed
C21_RemovedLeadsSoftDeleted ==
    \A c \in CampaignIds, name \in CampaignNames, first \in FetchedLeadLists,
       second \in FetchedLeadLists, lead_order \in LeadOrdersOf(leads_table) :
        LET run == TrackedTwice(c, c, name, first, second, lead_order)
            removed == LeadIdsOf(first) \ LeadIdsOf(second)
        IN  CurrentLeadIds(leads_table, c) = {}
            => /\ \A id \in removed :
                    /\ run.out.world.leads[id].present
                    /\ ~run.out.world.leads[id].is_active
                    /\ Cardinality(LeadEntriesOf(run.out.world.change_log, "lead_removed", id))
                         = Cardinality(LeadEntriesOf(run.stored.world.change_log,
                                                     "lead_removed", id)) + 1
                    /\ \A e \in LeadEntriesOf(run.out.world.change_log, "lead_removed", id) :
                         run.out.world.change_log[e].lead_company = CompanyIn(first, id)
               /\ run.out.changes.leads_removed = Cardinality(removed)

\* C22: when a campaign without stored leads is reconciled with one lead
\* list and then with a second one, every lead of both lists is stored with
\* the company name the second list gives it
C22_ChangedLeadsUpdated ==
    \A c \in CampaignIds, name \in CampaignNames, first \in FetchedLeadLists,
       second \in FetchedLeadLists, lead_order \in LeadOrdersOf(leads_table) :
        LET run == TrackedTwice(c, c, name, first, second, lead_order)
        IN  CurrentLeadIds(leads_table, c) = {}
            => \A id \in LeadIdsOf(first) \cap LeadIdsOf(second) :
                 /\ run.out.world.leads[id].present
                 /\ run.out.world.leads[id].is_active
                 /\ run.out.world.leads[id].company_name = CompanyIn(second, id)

\* C23: when campaign a is reconciled with a lead list and then another
\* campaign b with a list that holds one of the same lead ids, the second
\* call stores the lead as an active lead of b and leaves the leads of a as
\* the first call stored them
C23_LeadIdsScopedToCampaign ==
    \A a \in CampaignIds, b \in CampaignIds, name \in CampaignNames,
       first \in FetchedLeadLists, second \in FetchedLeadLists,
       lead_order \in LeadOrdersOf(leads_table) :
        LET run == TrackedTwice(a, b, name, first, second, lead_order)
        IN  (a # b /\ CurrentLeadIds(leads_table, a) = {} /\ CurrentLeadIds(leads_table, b) = {})
            => /\ ~run.out.failed
               /\ \A id \in LeadIdsOf(first) \cap LeadIdsOf(second) :
                    id \in CurrentLeadIds(run.out.world.leads, b)
               /\ CurrentLeadIds(run.out.world.leads, a) = LeadIdsOf(first)

\* the distinct non-empty company names of a fetched lead list and of the
\* active stored leads of a campaign
SnapshotCompanies(lead_list) ==
    { lead_list[i].companyName : i \in 1..Len(lead_list) } \ { <<>> }

StoredCompanies(tbl, campaign_id) ==
    { tbl[id].company_name : id \in CurrentLeadIds(tbl, campaign_id) } \ { <<>> }

\* C24: track_lead_changes returns as company_count_change the number of
\* distinct non-empty company names of the snapshot minus that of the
\* active stored leads of the campaign, and appends one
\* company_count_changed entry holding both counts exactly if the
\* difference is not zero
C24_CompanyCountChange ==
    \A c \in CampaignIds, name \in CampaignNames, new_leads \in FetchedLeadLists,
       lead_order \in LeadOrdersOf(leads_table) :
        LET out == TrackLeadChanges(World, c, name, new_leads, lead_order)
            old_count == Cardinality(StoredCompanies(leads_table, c))
            new_count == Cardinality(SnapshotCompanies(new_leads))
            appended == AppendedFor(out.world.change_log, Len(change_log),
                                    "company_count_changed", c)
        IN  /\ out.changes.company_count_change = new_count - old_count
            /\ Cardinality(appended) = Count(new_count # old_count)
            /\ \A e \in appended :
                 /\ out.world.change_log[e].old_value = Str(old_count)
                 /\ out.world.change_log[e].new_value = Str(new_count)

\* the campaign columns of a sync_history row
CampaignCounts(row) ==
    [id |-> row.id, campaigns_processed |-> row.campaigns_processed,
     campaigns_added |-> row.campaigns_added, campaigns_removed |-> row.campaigns_removed]

\* a step commits a campaign diff exactly if it appends one sync_history
\* row; the row holds the number of active campaigns the diff leaves and
\* the numbers of campaigns it inserted and soft-deleted, its duration is
\* null or the one the patch wrote, and the campaign columns of the
\* earlier rows stay as they are
SyncRunStep ==
    LET n == Len(sync_history)
        inserted == { id \in CampaignIds : ~campaigns[id].present /\ campaigns'[id].present }
        soft_deleted == { id \in CampaignIds :
                            /\ campaigns[id].present /\ campaigns[id].is_active
                            /\ ~campaigns'[id].is_active }
    IN  /\ Len(sync_history') \in { n, n + 1 }
        /\ Len(sync_history') = n
             => /\ campaigns' = campaigns
                /\ change_log' = change_log
                /\ sync_history' = sync_history
        /\ Len(sync_history') = n + 1
             => LET row == sync_history'[n + 1]
                IN  /\ row.campaigns_processed = Cardinality(CurrentCampaignIds(campaigns'))
                    /\ row.campaigns_added = Cardinality(inserted)
                    /\ row.campaigns_removed = Cardinality(soft_deleted)
                    /\ row.duration_seconds \in { NullReal, Duration }
        /\ \A i \in 1..n : CampaignCounts(sync_history'[i]) = CampaignCounts(sync_history[i])

TrimmedCompanies(lead_list) ==
    { Strip(lead_list[i].companyName) : i \in 1..Len(lead_list) } \ { <<>> }

\* C26: a lead list passes the test of get_campaigns_with_company_data
\* exactly if it has more than one distinct trimmed non-empty company name,
\* and a pass whose campaign list holds one campaign that is not stored yet
\* tracks the campaign exactly if the leads fetched for it do
C26_QualifiesIffSeveralCompanies ==
    /\ \A lead_list \in LeadLists :
         HasCompanyData(lead_list) <=> Cardinality(TrimmedCompanies(lead_list)) > 1
    /\ \A campaign \in ApiCampaigns, tie_break \in TieBreaksOf(sync_history),
          lead_order \in LeadOrdersOf(leads_table) :
         LET api == [ok |-> TRUE, campaigns |-> << campaign >>]
             kept == GetCampaignsWithCompanyData(api).campaigns
         IN  \A removed_order \in Orders(CurrentCampaignIds(campaigns) \ IdsOf(kept)) :
                 LET pass == ClientUpdateCampaigns(World, api, removed_order, lead_order,
                                                   tie_break)
                 IN  ~campaigns[campaign.id].present
                     => /\ ~pass.raised
                        /\ campaign.id \in CurrentCampaignIds(pass.commits[1].campaigns)
                             <=> Cardinality(TrimmedCompanies(
                                     GetCampaignLeads(campaign.fetch))) > 1

\* a pass kept one campaign and tracks it
C26_Witness ==
    /\ Len(sync_history) = 1
    /\ sync_history[1].campaigns_processed = 1
    /\ Cardinality(CurrentCampaignIds(campaigns)) = 1

\* what the caller and the store get of a working state db of
\* update_campaigns: an exception, or the rows, the counts and the entries
\* appended to the current change log, without their ids
Outcome(db) ==
    IF db.raised THEN [raised |-> TRUE]
    ELSE [raised |-> FALSE, campaigns |-> db.campaigns, stats |-> db.stats,
          entries |-> { [db.change_log[i] EXCEPT !.id = 0] :
                          i \in (Len(change_log) + 1)..Len(db.change_log) }]

\* the store has room for the sync_history row of a further reconciliation
ReconcileEnabled == Len(sync_history) < MaxSync

AppendedOfType(log, type) ==
    { i \in (Len(change_log) + 1)..Len(log) : log[i].change_type = type }

\* C28: the counts update_campaigns returns are the number of snapshot ids
\* that are not active in the store, the number of active ids the snapshot
\* lacks and the number of ids in both whose name or status differs, and
\* each is the number of entries of its type that the call appends
C28_CountsMatchDiff ==
    \A s \in Snapshots : \A o \in RemovalOrders(s) :
        LET out == Reconciled(s, o)
            c_old == CurrentCampaignIds(campaigns)
            c_new == IdsOf(s)
            differing == { id \in c_old \cap c_new :
                             \E i \in 1..Len(s) :
                                /\ s[i].id = id
                                /\ \/ s[i].name # campaigns[id].name
                                   \/ s[i].status # campaigns[id].status }
        IN  ~out.raised
            => /\ out.stats.campaigns_added = Cardinality(c_new \ c_old)
               /\ out.stats.campaigns_removed = Cardinality(c_old \ c_new)
               /\ out.stats.campaigns_updated = Cardinality(differing)
               /\ Cardinality(AppendedOfType(out.world.change_log, "campaign_added"))
                    = out.stats.campaigns_added
               /\ Cardinality(AppendedOfType(out.world.change_log, "campaign_removed"))
                    = out.stats.campaigns_removed
               /\ Cardinality(AppendedOfType(out.world.change_log, "campaign_updated"))
                    = out.stats.campaigns_updated

\* a reconciliation has added one campaign and removed another and has
\* recorded both counts
C28_Witness ==
    \E i \in 1..Len(sync_history) :
        /\ sync_history[i].campaigns_added = 1
        /\ sync_history[i].campaigns_removed = 1

\* the failures of the guards on company data and on new companies
GuardErrors == NoCompanyDataErrors \cup { "No new companies to push" }

\* a result carries the id of the campaign
CarriesCampaign(result, campaign_id) ==
    /\ "campaign_id" \in DOMAIN result
    /\ result.campaign_id = campaign_id

\* C29: push_all_companies and push_new_companies return their guard
\* failures as results, and each such result carries the id of the
\* campaign of the call
C29_GuardFailuresCarryCampaign ==
    \A c \in CampaignIds, leads \in LeadLists, delivered \in BOOLEAN :
        LET pushed_all == PushAllCompanies(World, c, leads, delivered).result
            pushed_new == PushNewCompanies(World, c, leads, delivered).result
        IN  /\ (~pushed_all.success /\ pushed_all.error \in GuardErrors)
               => CarriesCampaign(pushed_all, c)
            /\ (~pushed_new.success /\ pushed_new.error \in GuardErrors)
               => CarriesCampaign(pushed_new, c)

\* C30: a track_lead_changes call in which a statement fails does not
\* return the all-zero change result to its caller, and a push does not
\* return success when its write to the change log has failed and left the
\* log as it was
C30_NoErrorDiscarded ==
    /\ \A c \in CampaignIds, name \in CampaignNames, new_leads \in FetchedLeadLists,
          lead_order \in LeadOrdersOf(leads_table) :
         LET out == TrackLeadChanges(World, c, name, new_leads, lead_order)
         IN  out.failed => out.changes # NoChanges
    /\ \A c \in CampaignIds, leads \in LeadLists, delivered \in BOOLEAN :
         /\ PushAllCompanies(World, c, leads, delivered).result.success
            => PushAllCompanies(World, c, leads, delivered).world.change_log # change_log
         /\ PushNewCompanies(World, c, leads, delivered).result.success
            => PushNewCompanies(World, c, leads, delivered).world.change_log # change_log

\* C31: when the write of one campaign of a snapshot fails in
\* update_campaigns, the other campaigns of the snapshot are still
\* written: every campaign of the snapshot that has no row yet is stored as
\* an active row
C31_FailingRecordDoesNotAbort ==
    \A s \in Snapshots : \A o \in RemovalOrders(s) :
        LET out == Reconciled(s, o)
        IN  \A i \in 1..Len(s) :
                ~campaigns[s[i].id].present
                => /\ out.world.campaigns[s[i].id].present
                   /\ out.world.campaigns[s[i].id].is_active

\* C33: a pass that runs to its end leaves the duration in the
\* sync_history row it has created itself and leaves every earlier row as
\* it was
C33_PatchHitsOwnRow ==
    \A api \in ApiResults, tie_break \in TieBreaksOf(sync_history),
       lead_order \in LeadOrdersOf(leads_table) :
        \A removed_order \in Orders(CurrentCampaignIds(campaigns)
                                      \ IdsOf(GetCampaignsWithCompanyData(api).campaigns)) :
            LET pass == ClientUpdateCampaigns(World, api, removed_order, lead_order, tie_break)
                final == pass.commits[Len(pass.commits)].sync_history
            IN  ~pass.raised
                => /\ Len(final) = Len(sync_history) + 1
                   /\ final[Len(final)].duration_seconds = Duration
                   /\ \A i \in 1..Len(sync_history) : final[i] = sync_history[i]

\* C35: a pushAll or pushNew whose webhook delivery fails returns the
\* failure value "Failed to push to webhook" and leaves the store as it
\* was (pushed set, change log, deliveries), and a pushNew made afterwards
\* with the same company set returns and delivers the delta the failed call
\* was about to deliver
C35_FailedDeliveryKeepsDelta ==
    \A c \in CampaignIds, leads \in LeadLists :
        LET all == PushAllCompanies(World, c, leads, FALSE)
            new == PushNewCompanies(World, c, leads, FALSE)
            current == UniqueCompanies(leads)
            delta == current \ PushedSet(c)
        IN  /\ current # {}
               => /\ all.result = Failure("Failed to push to webhook")
                  /\ all.world = World
                  /\ PushNewCompanies(all.world, c, leads, TRUE).result
                        = PushNewCompanies(World, c, leads, TRUE).result
            /\ delta # {}
               => /\ new.result = Failure("Failed to push to webhook")
                  /\ new.world = World
                  /\ LET later == PushNewCompanies(new.world, c, leads, TRUE)
                     IN  /\ later.result.success
                         /\ later.result.companies = delta
                         /\ later.world.webhook
                                = Append(webhook, Payload(c, delta, "push_new"))

\* a campaign with a pushed set that is not empty and a company that is not
\* in it: a pushNew of a set holding both reaches the delivery with a delta
\* smaller than its set, and the delivery can fail
C35_Witness ==
    \E c \in CampaignIds :
        /\ PushedSet(c) # {}
        /\ Companies \ PushedSet(c) # {}
        /\ \E leads \in LeadLists :
              /\ UniqueCompanies(leads) \cap PushedSet(c) # {}
              /\ UniqueCompanies(leads) \ PushedSet(c) # {}
              /\ PushNewCompanies(World, c, leads, FALSE).result
                    = Failure("Failed to push to webhook")

\* a step that changes the pushed-company records (a pushAll or a pushNew,
\* through mark_companies_as_pushed) changes them for the campaign of the
\* payload it has delivered and for no other, and changes no campaign row
\* and no lead row
PushFrameStep ==
    pushed_companies' # pushed_companies
    => /\ Len(webhook') = Len(webhook) + 1
       /\ LET c == webhook'[Len(webhook')].campaign_id
          IN  /\ PushedSetIn(pushed_companies', c)
                    = PushedSet(c) \cup webhook'[Len(webhook')].companies
              /\ \A d \in CampaignIds \ {c} :
                    PushedSetIn(pushed_companies', d) = PushedSet(d)
       /\ campaigns' = campaigns
       /\ leads_table' = leads_table

\* C36: a pushAll, a pushNew and the mark_companies_as_pushed they make for
\* campaign c leave the pushed set of every other campaign, every campaign
\* row and every lead row as they were
C36_PushStatePerCampaign == [][PushFrameStep]_vars

\* the two campaigns have each been pushed once and have different pushed
\* sets, each exactly what was delivered for it
C36_Witness ==
    /\ Len(webhook) = 2
    /\ webhook[1].campaign_id # webhook[2].campaign_id
    /\ PushedSet(webhook[1].campaign_id) = webhook[1].companies
    /\ PushedSet(webhook[2].campaign_id) = webhook[2].companies
    /\ webhook[2].companies \ webhook[1].companies # {}
    /\ webhook[1].companies \ webhook[2].companies # {}

\* a step that reconciles the campaigns (it writes a sync_history row)
\* changes no lead row and no pushed-company record, and the lead rows a
\* step changes or stores all belong to one campaign
FrameStep ==
    /\ sync_history' # sync_history
       => /\ leads_table' = leads_table
          /\ pushed_companies' = pushed_companies
    /\ \E c \in CampaignIds :
          \A id \in LeadIds :
              leads_table'[id] # leads_table[id]
              => /\ leads_table'[id].present
                 /\ leads_table'[id].campaign_id = c
                 /\ leads_table[id].present => leads_table[id].campaign_id = c

C38_FailedReconcileRollsBack ==
    \A s \in Snapshots : \A o \in RemovalOrders(s) :
        LET out == Reconciled(s, o)
        IN  out.raised
            => /\ out.world.campaigns = campaigns
               /\ out.world.change_log = change_log
               /\ out.world.sync_history = sync_history
               /\ out.world = World

\* a store from which an update_campaigns fails after it has inserted a
\* campaign and appended its change-log entry
C38_Witness ==
    \E s \in Snapshots : \E o \in RemovalOrders(s) :
        LET run == UpdateCampaignsRun(campaigns, change_log, s, o)
        IN  /\ run.raised
            /\ run.campaigns # campaigns
            /\ Len(run.change_log) > Len(change_log)
            /\ Len(change_log) > 0

\* the callers whose push of campaign c has marked its companies
Marked(c) == { p \in Procs : inflight[p].phase = "done" /\ inflight[p].campaign_id = c }

\* C32: whatever the order of the steps of two pushes, the pushed set of a
\* campaign holds every company a completed push of that campaign has
\* marked, and what the call had read of the pushed set before
C32_NoLostMark ==
    \A c \in CampaignIds : \A p \in Marked(c) :
        /\ inflight[p].companies \subseteq PushedSet(c)
        /\ inflight[p].seen \subseteq PushedSet(c)

\* two pushes of one campaign have both completed, each had read the pushed
\* set before the other marked, and they marked different companies
C32_Witness ==
    \E c \in CampaignIds :
        /\ Marked(c) = Procs
        /\ \A p \in Procs : inflight[p].seen = {}
        /\ inflight["p1"].companies \ inflight["p2"].companies # {}
        /\ inflight["p2"].companies \ inflight["p1"].companies # {}
        /\ PushedSet(c) = inflight["p1"].companies \cup inflight["p2"].companies

\* C34: two pushNew calls of one campaign whose steps interleave deliver no
\* company name both
C34_NoDoubleDelivery ==
    \A p, q \in Procs :
        /\ p # q
        /\ inflight[p].phase \in {"delivered", "done"}
        /\ inflight[q].phase \in {"delivered", "done"}
        /\ inflight[p].op = "push_new" /\ inflight[q].op = "push_new"
        /\ inflight[p].campaign_id = inflight[q].campaign_id
        => inflight[p].companies \cap inflight[q].companies = {}

\* the requests that carried the row id alone, after request a
RetriesOf(id, a) ==
    { b \in (a + 1)..Len(migration.requests) : migration.requests[b].ids = <<id>> }

\* the ids a successful request has written
WrittenIds ==
    { id \in 1..Len(migration.orgs) :
        \E a \in 1..Len(migration.requests) :
            /\ migration.requests[a].ok
            /\ \E k \in 1..Len(migration.requests[a].ids) : migration.requests[a].ids[k] = id }

\* C39: in migrate_organizations every row of a failed batch of more than
\* one row is afterwards sent alone, whichever of these single requests
\* fail; the batches that follow are sent as well, so that at the return
\* every row has been sent; and the count is the number of rows a
\* successful request has written, which are the rows of the remote table
C39_BatchFailureRetriedSingly ==
    /\ \A a \in 1..Len(migration.requests) :
          LET req == migration.requests[a]
          IN  ~req.ok /\ Len(req.ids) > 1
              => \A k \in 1..Len(req.ids) : RetriesOf(req.ids[k], a) # {}
    /\ migration.returned
       => \A id \in 1..Len(migration.orgs) :
              \E a \in 1..Len(migration.requests) :
                  \E k \in 1..Len(migration.requests[a].ids) :
                      migration.requests[a].ids[k] = id
    /\ migration.migrated = Cardinality(WrittenIds)
    /\ migration.remote = WrittenIds

\* the migration has returned after a first batch that failed, with a first
\* row that failed alone and a second that was written alone, and a second
\* batch written whole
C39_Witness ==
    /\ migration.returned
    /\ Len(migration.orgs) = 4
    /\ migration.requests
          = << [ids |-> <<1, 2>>, ok |-> FALSE], [ids |-> <<1>>, ok |-> FALSE],
               [ids |-> <<2>>, ok |-> TRUE], [ids |-> <<3, 4>>, ok |-> TRUE] >>
    /\ migration.migrated = 3

====
